---- MODULE Spec2Model ----
(***************************************************************************)
(* Model of the ExperimentRecorder server (exprec): the per-connection     *)
(* protocol SingleExperimentServer, the BufferedExperimentInterface with   *)
(* its _FlushThread worker, the relational store and the two shutdown      *)
(* paths (cli.main._shutdown and ExperimentRecordingServer.stopFactory).   *)
(*                                                                         *)
(* The reactor thread runs one handler at a time; a handler that blocks    *)
(* (queue.join, Thread.join) keeps the reactor at a program counter other  *)
(* than "idle".  The worker thread interleaves with the reactor at the     *)
(* granularity of its queue operations.                                    *)
(***************************************************************************)
EXTENDS Integers, Sequences, FiniteSets, TLC

\* ------------------------------------------------------------------ bounds
MaxConns == 2
MaxRecv == 4
MaxFrames == 2
MaxChunkSize == 2
MaxTs == 2
MaxNow == 1

\* ------------------------------------------------------- program constants
version_major == 1
version_minor == 0

NULL == "NULL"

Conns == 1..MaxConns
Names == {"a", "b", "timestamp"}
Timestamps == 1..MaxTs
Majors == {version_major, version_major + 1}
Minors == {version_minor, version_minor + 1}
MetaLabels == {"k", "experiment_id"}
MetaValues == {"v1", "v2"}
default_metadata == [l \in {"experiment_name"} |-> "exp"]

VARIABLES
    conn,          \* per connection: protocol object and its transport
    instances,     \* table instances: id -> [start, end]
    metadata,      \* table instance_metadata: set of [instance_id, label, value]
    variables,     \* table variables: set of [id, name, instance_id]
    records,       \* table records: set of [variable_id, timestamp, value, msg]
    experiment_ids, \* BufferedExperimentInterface._experiment_ids
    buf,           \* BufferedExperimentInterface._buf (staging)
    buf_size,      \* BufferedExperimentInterface._buf_size (chunk size)
    buf_queue,     \* _FlushThread._buf_queue
    unfinished,    \* _FlushThread._buf_queue.unfinished_tasks
    shutdown,      \* _FlushThread._shutdown
    exc,           \* _FlushThread._exc
    var_memo,      \* _FlushThread._var_memo: set of [exp_id, name, var_id]
    wpc,           \* worker thread position in run()
    wbuf,          \* chunk the worker holds
    rpc,           \* reactor thread position inside a blocking call
    rctx,          \* which shutdown path the reactor is executing
    closed,        \* outcome of BufferedExperimentInterface.close()
    exported,      \* <<rows read by the export>>, <<>> before
    now,           \* wall clock
    accepted,      \* history: record messages acknowledged with success
    staged_at_shutdown, \* history: staging content when shutdown began
    db_file,       \* config['database']['path']: "present" or "deleted"
    pure,          \* a call of the codec or of the message schema under
                   \* evaluation: its input and its results so far (<<>> in
                   \* the specification of the server)
    client,        \* an ExperimentClient and its transport (<<>> where no
                   \* client is specified)
    threads        \* threads other than the reactor and the worker of the
                   \* server: their positions and locals (<<>> where there
                   \* are none)

vars == <<conn, instances, metadata, variables, records, experiment_ids, buf,
          buf_size, buf_queue, unfinished, shutdown, exc, var_memo, wpc, wbuf,
          rpc, rctx, closed, exported, now, accepted, staged_at_shutdown,
          db_file, pure, client, threads>>

\* ------------------------------------------------------------------ frames
\* A decoded inbound frame.  shape = "bad" is a payload that does not match
\* the schema of its type; type "bogus" is a type the schema does not know;
\* type "garbage" is a byte sequence the unpacker cannot decode.
Frame(t, sh, ma, mi, ts, ns, l, v) ==
    [type |-> t, shape |-> sh, major |-> ma, minor |-> mi, timestamp |-> ts,
     names |-> ns, label |-> l, value |-> v]

VersionFrames == {Frame("version", "ok", ma, mi, 0, {}, "", "") :
                    ma \in Majors, mi \in Minors}
NameSets == {{}, {"a"}, {"a", "b"}, {"timestamp"}}
RecordFrames == {Frame("record", "ok", 0, 0, p[1], p[2], "", "") :
                    p \in {q \in Timestamps \X NameSets :
                                q[1] = 1 \/ q[2] = {"a"}}}
MetadataFrames == {Frame("metadata", "ok", 0, 0, 0, {}, p[1], p[2]) :
                    p \in {q \in MetaLabels \X MetaValues :
                                q[1] = "k" \/ q[2] = "v1"}}
FinishFrame == Frame("finish", "ok", 0, 0, 0, {}, "", "")
OtherFrames == {Frame("status", "ok", 0, 0, 0, {}, "", ""),
                Frame("record", "bad", 0, 0, 0, {}, "", ""),
                Frame("bogus", "ok", 0, 0, 0, {}, "", ""),
                Frame("garbage", "bad", 0, 0, 0, {}, "", "")}
Frames == VersionFrames \cup RecordFrames \cup MetadataFrames
            \cup {FinishFrame} \cup OtherFrames

MESSAGE_TYPES == {"version", "welcome", "metadata", "record", "status", "finish"}

\* An outbound message: keys is the set of keys present in the payload.
OutMsg(t, ks, id, n) == [type |-> t, keys |-> ks, instance_id |-> id, recorded |-> n]

\* _msg_payload_schemas['status']: 'success' is required, 'info' and 'error'
\* are optional and exclude each other.
StatusSchema(keys) ==
    /\ "success" \in keys
    /\ keys \subseteq {"success", "info", "error"}
    /\ ~({"info", "error"} \subseteq keys)

WelcomeSchema(keys) == keys = {"instance_id"}

\* validate_message applied to an outbound message (make_message).
make_message_ok(m) ==
    CASE m.type = "status" -> StatusSchema(m.keys)
      [] m.type = "welcome" -> WelcomeSchema(m.keys)
      [] OTHER -> FALSE

\* validate_message applied to an inbound frame.
validate_message(f) == f.type \in MESSAGE_TYPES /\ f.shape = "ok"

\* check_message_type(*expected_types)
check_message_type(expected, f) == f.type \in expected

\* Names of a record message in the order of its variables mapping.
RECURSIVE NameSeq(_)
NameSeq(ns) ==
    IF ns = {} THEN <<>>
    ELSE LET n == CHOOSE x \in ns : \A y \in ns : x = y \/ (x = "a") IN
         <<n>> \o NameSeq(ns \ {n})

\* ------------------------------------------------- reactor-side operations
\* The operations below are run by the reactor thread inside one handler.
\* They are functions of a snapshot s of the state the reactor thread
\* writes; s.raised names the exception travelling up the call stack ("" if
\* none).  The worker-owned flag shutdown is read, never written, here.
Snapshot ==
    [conn |-> conn, instances |-> instances, metadata |-> metadata,
     experiment_ids |-> experiment_ids, buf |-> buf, buf_queue |-> buf_queue,
     unfinished |-> unfinished, accepted |-> accepted, now |-> now,
     raised |-> ""]

\* datetime.datetime.now(): the handler running at time t reads the clock.
datetime_now(s, t) == [s EXCEPT !.now = t]

\* ExperimentInstance(): id = uuid4(), start = now(), end = NULL.  A column
\* value is <<v>>, NULL is <<>>.
ExperimentInstance(t) == [start |-> <<t>>, end |-> <<>>]

\* VarUpdate(timestamp, name, value, exp_id); msg identifies the record
\* message the sample came with.
VarUpdate(ts, n, v, e, m) ==
    [timestamp |-> ts, name |-> n, value |-> v, exp_id |-> e, msg |-> m]

\* Mutant of push_records: the queue holds one chunk at most, put_nowait on
\* a full queue raises queue.Full.
push_records_bounded(s, b) ==
    IF shutdown
    THEN [s EXCEPT !.raised = "RuntimeError"]
    ELSE IF Len(s.buf_queue) >= 1
    THEN [s EXCEPT !.raised = "Full"]
    ELSE [s EXCEPT !.buf_queue = Append(@, b), !.unfinished = @ + 1]

\* _FlushThread.push_records
push_records(s, b) ==
    IF shutdown
    THEN [s EXCEPT !.raised = "RuntimeError"]
    ELSE [s EXCEPT !.buf_queue = Append(@, b), !.unfinished = @ + 1]

\* Mutant of flush: the staging buffer is cleared before the snapshot is
\* taken, so an empty chunk is handed over.
flush_clear_first(s) == push_records([s EXCEPT !.buf = <<>>], <<>>)

\* BufferedExperimentInterface.flush, up to the hand-off (the blocking part
\* is the reactor's wait, see FlushWaitDone).
flush(s) == push_records([s EXCEPT !.buf = <<>>], s.buf)

\* ExperimentMetadata: the primary key is (instance_id, label).
MetadataKey(r) == <<r.instance_id, r.label>>

\* Mutant of merge: the object is inserted whether or not its key is stored.
merge_insert_only(table, mdata) == table \cup {mdata}

\* session.merge(mdata): the row of the same primary key, if there is one,
\* takes the state of mdata; otherwise mdata is inserted.
merge(table, mdata) ==
    {r \in table : MetadataKey(r) # MetadataKey(mdata)} \cup {mdata}

\* BufferedExperimentInterface.add_metadata: session.merge of each pair, in
\* the order of kwargs.items().
RECURSIVE merge_all(_, _, _)
merge_all(table, id, pairs) ==
    IF DOMAIN pairs = {} THEN table
    ELSE LET l == CHOOSE x \in DOMAIN pairs : TRUE
             mdata == [instance_id |-> id, label |-> l, value |-> pairs[l]]
         IN  merge_all(merge(table, mdata), id,
                       [k \in DOMAIN pairs \ {l} |-> pairs[k]])

add_metadata(s, id, pairs) ==
    [s EXCEPT !.metadata = merge_all(@, id, pairs)]

\* uuid.uuid4(): an id no row has.
NewId(s) == Cardinality(DOMAIN s.instances) + 1

\* Mutant of new_experiment_instance: the default metadata is not written.
new_experiment_instance_no_defaults(s, t) ==
    LET id == NewId(s)
        s1 == [datetime_now(s, t) EXCEPT
                    !.instances = @ @@ (id :> ExperimentInstance(t))]
    IN  [s1 EXCEPT !.experiment_ids = @ \cup {id}]

\* BufferedExperimentInterface.new_experiment_instance
new_experiment_instance(s, t) ==
    LET id == NewId(s)
        s1 == [datetime_now(s, t) EXCEPT
                    !.instances = @ @@ (id :> ExperimentInstance(t))]
        s2 == add_metadata(s1, id, default_metadata)
    IN  [s2 EXCEPT !.experiment_ids = @ \cup {id}]

\* Mutant of finish_experiment_instance: the end is never written.
finish_without_end(s, id, t) == datetime_now(s, t)

\* BufferedExperimentInterface.finish_experiment_instance
finish_experiment_instance(s, id, t) ==
    [datetime_now(s, t) EXCEPT !.instances[id].end = <<t>>]

\* Mutant of record_variables: the samples are tagged with the experiment
\* created first instead of the experiment of the caller.
record_variables_first_exp(s, id, ts, names, m) ==
    LET ns == NameSeq(names)
        upd == [i \in 1..Len(ns) |-> VarUpdate(ts, ns[i], m[2], 1, m)]
        s1 == [s EXCEPT !.buf = @ \o upd]
    IN  IF Len(s1.buf) >= buf_size THEN flush(s1) ELSE s1

\* Mutant of record_variables: the hand-off waits until staging exceeds the
\* chunk size.
record_variables_late(s, id, ts, names, m) ==
    LET ns == NameSeq(names)
        upd == [i \in 1..Len(ns) |-> VarUpdate(ts, ns[i], m[2], id, m)]
        s1 == [s EXCEPT !.buf = @ \o upd]
    IN  IF Len(s1.buf) > buf_size THEN flush(s1) ELSE s1

\* BufferedExperimentInterface.record_variables
record_variables(s, id, ts, names, m) ==
    LET ns == NameSeq(names)
        upd == [i \in 1..Len(ns) |-> VarUpdate(ts, ns[i], m[2], id, m)]
        s1 == [s EXCEPT !.buf = @ \o upd]
    IN  IF Len(s1.buf) >= buf_size THEN flush(s1) ELSE s1

\* ------------------------------------------ SingleExperimentServer handlers
\* Mutant of _send: the message is written ahead of what was written before.
send_prepend(s, c, m) == [s EXCEPT !.conn[c].out = <<m>> \o @]

\* SingleExperimentServer._send
send(s, c, m) == [s EXCEPT !.conn[c].out = Append(@, m)]

\* Mutant of loseConnection: every open connection of the factory is closed.
loseConnection_all(s, c) ==
    [s EXCEPT !.conn = [d \in Conns |->
        [@[d] EXCEPT !.transport = IF @ = "open" THEN "closing" ELSE @]]]

\* transport.loseConnection()
loseConnection(s, c) ==
    [s EXCEPT !.conn[c].transport = IF @ = "open" THEN "closing" ELSE @]

\* Mutant of fired: the Deferred takes a further message.
fired_again(s, c) == s

\* The Deferred in _current_d has fired and no new one was installed.
fired(s, c) == [s EXCEPT !.conn[c].called = TRUE]

\* wait_for_records_metadata_or_finish(exp_id): install a fresh Deferred.
wait_for_records_metadata_or_finish(s, c, id) ==
    [s EXCEPT !.conn[c].state = "Recording", !.conn[c].called = FALSE,
              !.conn[c].exp_id = id]

\* The peer address as stored in the 'address' metadata.
address(c) == [l \in {"address"} |-> c]

\* Mutant of wait_for_version: the welcome message carries an id generated
\* after the row was created instead of the id of the row.
wait_for_version_stale_id(s, c, t) ==
    LET s1 == new_experiment_instance(s, t)
        id == NewId(s)
        s2 == add_metadata(s1, id, address(c))
        welcome_msg == OutMsg("welcome", {"instance_id"}, NewId(s1), 0)
    IN  wait_for_records_metadata_or_finish(send(s2, c, welcome_msg), c, id)

\* __init__.wait_for_version, the accepting branch
wait_for_version(s, c, t) ==
    LET s1 == new_experiment_instance(s, t)
        id == NewId(s)
        s2 == add_metadata(s1, id, address(c))
        welcome_msg == OutMsg("welcome", {"instance_id"}, id, 0)
    IN  IF ~make_message_ok(welcome_msg)
        THEN [s2 EXCEPT !.raised = "InvalidMessageError"]
        ELSE wait_for_records_metadata_or_finish(send(s2, c, welcome_msg), c, id)

\* Mutant of the handshake errback: the failure is logged, the connection is
\* left open.
errback_version_keeps_open(s, c) == fired([s EXCEPT !.raised = ""], c)

\* __init__.errback: drop the connection.
errback_version(s, c) == loseConnection(fired([s EXCEPT !.raised = ""], c), c)

\* wait_for_records_metadata_or_finish.errback
errback(s, c, t) ==
    LET s0 == fired([s EXCEPT !.raised = ""], c)
        error_msg == OutMsg("status", {"error"}, 0, 0)
    IN  IF ~make_message_ok(error_msg)
        THEN s0     \* make_message raises inside the errback: nothing is sent
        ELSE loseConnection(
                finish_experiment_instance(send(s0, c, error_msg),
                                           s.conn[c].exp_id, t), c)

\* A call f(p1=..., **kw) in which a key of kw names a parameter that is
\* already bound raises TypeError before f runs.
KeywordCollision(params, kw) == params \cap kw # {}

\* wait_for_records_metadata_or_finish.callback
callback(s, c, f, t) ==
    LET id == s.conn[c].exp_id
        m == <<c, s.conn[c].nrecv>>
    IN  CASE f.type = "record" ->
                LET s1 == IF KeywordCollision({"experiment_id", "timestamp"},
                                              f.names)
                          THEN [s EXCEPT !.raised = "TypeError"]
                          ELSE record_variables(s, id, f.timestamp, f.names, m)
                    ret_msg == OutMsg("status", {"success", "info"}, 0,
                                      Cardinality(f.names))
                IN  IF s1.raised # "" THEN s1
                    ELSE IF ~make_message_ok(ret_msg)
                    THEN [s1 EXCEPT !.raised = "InvalidMessageError"]
                    ELSE wait_for_records_metadata_or_finish(
                            [send(s1, c, ret_msg) EXCEPT !.accepted =
                                @ \cup {[msg |-> m, exp_id |-> id,
                                         timestamp |-> f.timestamp,
                                         names |-> f.names]}],
                            c, id)
          [] f.type = "metadata" ->
                LET s1 == IF KeywordCollision({"experiment_id"}, {f.label})
                          THEN [s EXCEPT !.raised = "TypeError"]
                          ELSE add_metadata(s, id,
                                            [l \in {f.label} |-> f.value])
                    ret_msg == OutMsg("status", {"success"}, 0, 0)
                IN  IF s1.raised # "" THEN s1
                    ELSE IF ~make_message_ok(ret_msg)
                    THEN [s1 EXCEPT !.raised = "InvalidMessageError"]
                    ELSE wait_for_records_metadata_or_finish(
                            send(s1, c, ret_msg), c, id)
          [] OTHER ->  \* finish
                loseConnection(fired(finish_experiment_instance(s, id, t), c), c)

\* self._current_d.callback(msg): validate_message, then the handler of the
\* current state, then its errback.  Firing a Deferred that has already
\* fired raises AlreadyCalledError out of dataReceived.
current_d_callback(s, c, f, t) ==
    IF s.conn[c].called THEN [s EXCEPT !.raised = "AlreadyCalledError"]
    ELSE IF s.conn[c].state = "AwaitVersion"
    THEN IF validate_message(f) /\ check_message_type({"version"}, f)
            /\ f.major = version_major
         THEN LET s1 == wait_for_version(s, c, t) IN
              IF s1.raised # "" THEN errback_version(s1, c) ELSE s1
         ELSE errback_version(s, c)
    ELSE IF validate_message(f)
            /\ check_message_type({"record", "metadata", "finish"}, f)
         THEN LET s1 == callback(s, c, f, t) IN
              IF s1.raised # "" THEN errback(s1, c, t) ELSE s1
         ELSE errback(s, c, t)

\* History: the first frame of connection c is a version message of another
\* major.
VersionMismatch(s, c, f) ==
    /\ s.conn[c].nrecv = 0
    /\ f.type = "version" /\ f.shape = "ok"
    /\ f.major # version_major

\* Mutant of dataReceived: only the first message the unpacker yields is
\* handled, the rest of the chunk is dropped.
dataReceived_first_only(s, c, chunk, t) ==
    IF chunk = <<>> THEN s
    ELSE LET f == Head(chunk)
             s0 == [s EXCEPT !.conn[c].nrecv = @ + 1,
                             !.conn[c].mismatch = @ \/ VersionMismatch(s, c, f)]
         IN  IF f.type = "garbage"
             THEN [s0 EXCEPT !.conn[c].transport = "lost"]
             ELSE LET s1 == current_d_callback(s0, c, f, t) IN
                  IF s1.raised # ""
                  THEN [s1 EXCEPT !.conn[c].transport = "lost", !.raised = ""]
                  ELSE s1

\* SingleExperimentServer.dataReceived: feed the unpacker, then fire the
\* current Deferred for every decoded message.  An exception leaving the loop
\* (undecodable bytes, AlreadyCalledError) ends the loop; the reactor logs it
\* and drops the connection.
RECURSIVE dataReceived(_, _, _, _)
dataReceived(s, c, chunk, t) ==
    IF chunk = <<>> THEN s
    ELSE LET f == Head(chunk)
             s0 == [s EXCEPT !.conn[c].nrecv = @ + 1,
                             !.conn[c].mismatch = @ \/ VersionMismatch(s, c, f)]
         IN  IF f.type = "garbage"
             THEN [s0 EXCEPT !.conn[c].transport = "lost"]
             ELSE LET s1 == current_d_callback(s0, c, f, t) IN
                  IF s1.raised # ""
                  THEN [s1 EXCEPT !.conn[c].transport = "lost", !.raised = ""]
                  ELSE dataReceived(s1, c, Tail(chunk), t)

\* ------------------------------------------------------------ _FlushThread
\* Mutant of the variable lookup: the memo is never consulted, every sample
\* gets an InstanceVariable row of its own.
RECURSIVE collect_records_no_memo(_, _)
collect_records_no_memo(chunk, st) ==
    IF chunk = <<>> THEN st
    ELSE LET u == Head(chunk)
             new_id == Cardinality(st.variables) + 1
             row == [variable_id |-> new_id, timestamp |-> u.timestamp,
                     value |-> u.value, msg |-> u.msg]
         IN  collect_records_no_memo(Tail(chunk),
                [memo |-> st.memo,
                 variables |-> st.variables \cup
                                    {[id |-> new_id, name |-> u.name,
                                      instance_id |-> u.exp_id]},
                 rows |-> Append(st.rows, row)])

\* _flush_to_db, lines 82-105: resolve the variable of every sample through
\* the memo, creating the InstanceVariable row on a miss, and collect the
\* VariableRecord rows.  st = [memo, variables, rows].
RECURSIVE collect_records(_, _)
collect_records(chunk, st) ==
    IF chunk = <<>> THEN st
    ELSE LET u == Head(chunk)
             hit == {e \in st.memo : e.exp_id = u.exp_id /\ e.name = u.name}
             new_id == Cardinality(st.variables) + 1
             var_id == IF hit # {} THEN (CHOOSE e \in hit : TRUE).var_id
                       ELSE new_id
             row == [variable_id |-> var_id, timestamp |-> u.timestamp,
                     value |-> u.value, msg |-> u.msg]
         IN  collect_records(Tail(chunk),
                [memo |-> IF hit # {} THEN st.memo
                          ELSE st.memo \cup {[exp_id |-> u.exp_id,
                                              name |-> u.name,
                                              var_id |-> new_id]},
                 variables |-> IF hit # {} THEN st.variables
                               ELSE st.variables \cup
                                    {[id |-> new_id, name |-> u.name,
                                      instance_id |-> u.exp_id]},
                 rows |-> Append(st.rows, row)])

RecordKey(r) == <<r.variable_id, r.timestamp>>

\* Mutant of commit_ok: the store has no primary key on records.
commit_ok_unchecked(rows, stored) == TRUE

\* session.add_all(records); session.commit(): the primary key of records is
\* (variable_id, timestamp); a batch repeating a key, among its rows or
\* against a stored row, fails as a whole.
commit_ok(rows, stored) ==
    /\ \A i, j \in 1..Len(rows) : RecordKey(rows[i]) = RecordKey(rows[j]) => i = j
    /\ \A i \in 1..Len(rows) : \A r \in stored : RecordKey(r) # RecordKey(rows[i])

\* run(), lines 132-135: `except ... as e`.  The expression after except is
\* Ellipsis, which is no exception class: matching the raised exception
\* against it raises TypeError, the handler body never runs and the slot
\* keeps its value.  The thread ends with the TypeError.
run_except(slot, e) == slot

\* _flush_to_db(buf) followed by task_done(), as one step of the worker.
\* next_pc is where run() continues after a successful flush.
FlushToDb(chunk, next_pc) ==
    LET st == collect_records(chunk, [memo |-> var_memo, variables |-> variables,
                                      rows |-> <<>>])
    IN  /\ var_memo' = st.memo
        /\ variables' = st.variables
        /\ wbuf' = <<>>
        /\ IF commit_ok(st.rows, records)
           THEN /\ records' = records \cup {st.rows[i] : i \in 1..Len(st.rows)}
                /\ unfinished' = unfinished - 1
                /\ wpc' = next_pc
                /\ exc' = exc
           ELSE /\ records' = records
                /\ unfinished' = unfinished
                /\ wpc' = "dead"
                /\ exc' = run_except(exc, "IntegrityError")

\* run(), line 114: self._shutdown.clear()
WorkerStart ==
    /\ wpc = "start"
    /\ shutdown' = FALSE
    /\ wpc' = "loop"
    /\ UNCHANGED <<conn, instances, metadata, variables, records,
                   experiment_ids, buf, buf_size, buf_queue, unfinished, exc,
                   var_memo, wbuf, rpc, rctx, closed, exported, now, accepted,
                   staged_at_shutdown,
                   db_file, pure, client, threads>>

\* Mutant of the worker's get: the chunk handed over last is taken first.
WorkerGet_lifo ==
    /\ wpc = "loop"
    /\ IF shutdown
       THEN wpc' = "drain" /\ UNCHANGED <<buf_queue, wbuf>>
       ELSE IF buf_queue # <<>>
       THEN wpc' = "flush" /\ wbuf' = buf_queue[Len(buf_queue)]
            /\ buf_queue' = SubSeq(buf_queue, 1, Len(buf_queue) - 1)
       ELSE UNCHANGED <<wpc, buf_queue, wbuf>>
    /\ UNCHANGED <<conn, instances, metadata, variables, records,
                   experiment_ids, buf, buf_size, unfinished, shutdown, exc,
                   var_memo, rpc, rctx, closed, exported, now, accepted,
                   staged_at_shutdown,
                   db_file, pure, client, threads>>

\* run(), lines 115-119: test the flag, then get(timeout=0.05).
WorkerGet ==
    /\ wpc = "loop"
    /\ IF shutdown
       THEN wpc' = "drain" /\ UNCHANGED <<buf_queue, wbuf>>
       ELSE IF buf_queue # <<>>
       THEN wpc' = "flush" /\ wbuf' = Head(buf_queue)
            /\ buf_queue' = Tail(buf_queue)
       ELSE UNCHANGED <<wpc, buf_queue, wbuf>>
    /\ UNCHANGED <<conn, instances, metadata, variables, records,
                   experiment_ids, buf, buf_size, unfinished, shutdown, exc,
                   var_memo, rpc, rctx, closed, exported, now, accepted,
                   staged_at_shutdown,
                   db_file, pure, client, threads>>

\* run(), lines 121-122
WorkerFlush ==
    /\ wpc = "flush"
    /\ FlushToDb(wbuf, "loop")
    /\ UNCHANGED <<conn, instances, metadata, experiment_ids, buf, buf_size,
                   buf_queue, shutdown, rpc, rctx, closed, exported, now,
                   accepted, staged_at_shutdown,
                   db_file, pure, client, threads>>

\* run(), lines 125-131: flush remaining tasks, then return.
WorkerDrain ==
    /\ wpc = "drain"
    /\ IF buf_queue # <<>>
       THEN /\ FlushToDb(Head(buf_queue), "drain")
            /\ buf_queue' = Tail(buf_queue)
       ELSE /\ wpc' = "exited"
            /\ UNCHANGED <<buf_queue, wbuf, var_memo, variables, records,
                           unfinished, exc>>
    /\ UNCHANGED <<conn, instances, metadata, experiment_ids, buf, buf_size,
                   shutdown, rpc, rctx, closed, exported, now, accepted,
                   staged_at_shutdown,
                   db_file, pure, client, threads>>

\* ---------------------------------------------------------------- export
\* _records_to_dataframe, lines 46-55: the join of instances, variables and
\* records, restricted to the experiment ids of this run.
query_all(ids) ==
    {[experiment |-> v.instance_id, variable |-> v.name,
      timestamp |-> r.timestamp, value |-> r.value] :
        <<v, r>> \in {p \in variables \X records :
                        /\ p[1].instance_id \in ids
                        /\ p[1].instance_id \in DOMAIN instances
                        /\ p[2].variable_id = p[1].id}}

\* A DataFrame in wide form: its index (row labels), its columns and its
\* cells; a cell is <<v>>, or <<>> for NaN.
DataFrame(index, columns, cell, raised) ==
    [index |-> index, columns |-> columns, cell |-> cell, raised |-> raised]

\* The rows of the long table df that fall into the cell (k, n) of the pivot.
cell_rows(df, k, n) ==
    {r \in df : <<r.experiment, r.timestamp>> = k /\ r.variable = n}

\* Mutant of pivot: rows with an empty cell are dropped.
pivot_dropna(df) ==
    LET columns == {r.variable : r \in df}
        index == {k \in {<<r.experiment, r.timestamp>> : r \in df} :
                    \A n \in columns : cell_rows(df, k, n) # {}}
    IN  DataFrame(index, columns,
            [p \in index \X columns |->
                <<(CHOOSE r \in cell_rows(df, p[1], p[2]) : TRUE).value>>],
            IF \E k \in index, n \in columns :
                    Cardinality(cell_rows(df, k, n)) > 1
            THEN "ValueError" ELSE "")

\* DataFrame.pivot(index=['experiment', 'timestamp'], columns='variable',
\* values='value'): one row per index value, one column per variable, NaN
\* where no row of df falls; two rows of df in one cell raise ValueError.
pivot(df) ==
    LET index == {<<r.experiment, r.timestamp>> : r \in df}
        columns == {r.variable : r \in df}
    IN  DataFrame(index, columns,
            [p \in index \X columns |->
                IF cell_rows(df, p[1], p[2]) = {} THEN <<>>
                ELSE <<(CHOOSE r \in cell_rows(df, p[1], p[2]) : TRUE).value>>],
            IF \E k \in index, n \in columns :
                    Cardinality(cell_rows(df, k, n)) > 1
            THEN "ValueError" ELSE "")

\* _records_to_dataframe: the query, then the pivot unless the table is
\* empty.
records_to_dataframe(ids) ==
    LET df == query_all(ids)
    IN  IF df = {} THEN DataFrame({}, {}, <<>>, "") ELSE pivot(df)

\* BufferedExperimentInterface.records_as_dataframe hands the staging buffer
\* to the worker and waits for it before it queries the store.
records_as_dataframe_flush(s) == flush(s)

\* ---------------------------------------------------------- reactor events
InitConn ==
    [state |-> "AwaitVersion", called |-> FALSE, exp_id |-> 0,
     transport |-> "open", out |-> <<>>, nrecv |-> 0, mismatch |-> FALSE]

\* Frames received so far, over all connections.
RECURSIVE SumRecv(_)
SumRecv(cs) ==
    IF cs = {} THEN 0
    ELSE LET c == CHOOSE x \in cs : TRUE IN conn[c].nrecv + SumRecv(cs \ {c})
Received == SumRecv(Conns)

Chunks == UNION {[1..n -> Frames] : n \in 1..MaxFrames}

\* Install the snapshot a handler returns.
Install(s) ==
    /\ conn' = s.conn
    /\ instances' = s.instances
    /\ metadata' = s.metadata
    /\ experiment_ids' = s.experiment_ids
    /\ buf' = s.buf
    /\ buf_queue' = s.buf_queue
    /\ unfinished' = s.unfinished
    /\ accepted' = s.accepted
    /\ now' = s.now

\* The reactor delivers a chunk of bytes holding the frames of `chunk` to the
\* protocol of connection c.
DataReceived(c, chunk) ==
    /\ rpc = "idle"
    /\ conn[c].transport = "open"
    /\ Received + Len(chunk) <= MaxRecv
    /\ \E t \in {now, now + 1} :
        /\ t <= MaxNow
        /\ Install(dataReceived(Snapshot, c, chunk, t))
    /\ UNCHANGED <<variables, records, buf_size, shutdown, exc, var_memo, wpc,
                   wbuf, rpc, rctx, closed, exported, staged_at_shutdown,
                   db_file, pure, client, threads>>

\* The peer closes a connection that completed the handshake (before the
\* handshake there is no experiment to finalize).  SingleExperimentServer
\* defines no connectionLost, so only the transport changes.
ConnectionLost(c) ==
    /\ rpc = "idle"
    /\ conn[c].transport = "open"
    /\ conn[c].state = "Recording" /\ ~conn[c].called
    /\ conn' = [conn EXCEPT ![c].transport = "lost"]
    /\ UNCHANGED <<instances, metadata, variables, records, experiment_ids,
                   buf, buf_size, buf_queue, unfinished, shutdown, exc,
                   var_memo, wpc, wbuf, rpc, rctx, closed, exported, now,
                   accepted, staged_at_shutdown,
                   db_file, pure, client, threads>>

\* cli.main._shutdown, first statement: interface.close(), which starts with
\* flush(blocking=True).
Shutdown ==
    /\ rpc = "idle" /\ rctx = "none"
    /\ staged_at_shutdown' = buf
    /\ Install(flush(Snapshot))
    /\ rpc' = "flush_wait"
    /\ rctx' = "cli"
    /\ UNCHANGED <<variables, records, buf_size, shutdown, exc, var_memo, wpc,
                   wbuf, closed, exported, db_file, pure, client, threads>>

\* ExperimentRecordingServer.stopFactory up to records_as_dataframe().
StopFactory ==
    /\ rpc = "idle" /\ rctx = "none"
    /\ staged_at_shutdown' = buf
    /\ Install(records_as_dataframe_flush(Snapshot))
    /\ rpc' = "flush_wait"
    /\ rctx' = "export"
    /\ UNCHANGED <<variables, records, buf_size, shutdown, exc, var_memo, wpc,
                   wbuf, closed, exported, db_file, pure, client, threads>>

\* Mutant of FlushWaitDone: wait_for_flush() returns at once, without
\* waiting for unfinished_tasks to reach 0.
FlushWaitDone_no_wait ==
    /\ rpc = "flush_wait"
    /\ IF exc # NULL
       THEN /\ rpc' = "idle"
            /\ closed' = "raised"
            /\ UNCHANGED <<rctx, exported, shutdown, conn, instances, metadata,
                           experiment_ids, buf, buf_queue, unfinished, accepted,
                           now>>
       ELSE IF rctx = "export"
       THEN /\ exported' = <<records_to_dataframe(experiment_ids)>>
            /\ Install(flush(Snapshot))
            /\ rctx' = "factory"
            /\ UNCHANGED <<rpc, closed, shutdown>>
       ELSE /\ shutdown' = TRUE
            /\ rpc' = "join_wait"
            /\ UNCHANGED <<rctx, closed, exported, conn, instances, metadata,
                           experiment_ids, buf, buf_queue, unfinished, accepted,
                           now>>
    /\ UNCHANGED <<variables, records, buf_size, exc, var_memo, wpc, wbuf,
                   staged_at_shutdown,
                   db_file, pure, client, threads>>

\* flush(blocking=True) after the hand-off: wait_for_flush() returns when
\* unfinished_tasks is 0, then sanity_check() re-raises a stored exception.
\* In close() the next statement is _flush_t.join(), which sets the shutdown
\* flag; in stopFactory the query, the files and then close() follow.
FlushWaitDone ==
    /\ rpc = "flush_wait"
    /\ unfinished = 0
    /\ IF exc # NULL
       THEN /\ rpc' = "idle"
            /\ closed' = "raised"
            /\ UNCHANGED <<rctx, exported, shutdown, conn, instances, metadata,
                           experiment_ids, buf, buf_queue, unfinished, accepted,
                           now>>
       ELSE IF rctx = "export"
       THEN /\ exported' = <<records_to_dataframe(experiment_ids)>>
            /\ Install(flush(Snapshot))
            /\ rctx' = "factory"
            /\ UNCHANGED <<rpc, closed, shutdown>>
       ELSE /\ shutdown' = TRUE
            /\ rpc' = "join_wait"
            /\ UNCHANGED <<rctx, closed, exported, conn, instances, metadata,
                           experiment_ids, buf, buf_queue, unfinished, accepted,
                           now>>
    /\ UNCHANGED <<variables, records, buf_size, exc, var_memo, wpc, wbuf,
                   staged_at_shutdown,
                   db_file, pure, client, threads>>

\* _FlushThread.join, line 73: wait_for_flush()
JoinWaitDone ==
    /\ rpc = "join_wait"
    /\ unfinished = 0
    /\ rpc' = "thread_join"
    /\ UNCHANGED <<conn, instances, metadata, variables, records,
                   experiment_ids, buf, buf_size, buf_queue, unfinished,
                   shutdown, exc, var_memo, wpc, wbuf, rctx, closed, exported,
                   now, accepted, staged_at_shutdown,
                   db_file, pure, client, threads>>

\* Mutant of unlink_db_file: the file is unlinked whether or not the export
\* returned.
unlink_db_file_always(ok, persist) ==
    IF ~persist THEN "deleted" ELSE "present"

\* cli.main._shutdown, lines 153-155: the store file is unlinked when the
\* statements before it returned (ok) and database.persist is false.
unlink_db_file(ok, persist) ==
    IF ok /\ ~persist THEN "deleted" ELSE "present"

\* _FlushThread.join, line 74: Thread.join returns when run() has ended; then
\* close() commits and closes its session.  In cli.main._shutdown the export
\* follows: _aggregate_and_output either writes its files or raises (the
\* output directory cannot be written), then the configuration is read for
\* database.persist, and the reactor stops.  After stopFactory the reactor
\* keeps serving the open connections.
ThreadJoinDone ==
    /\ rpc = "thread_join"
    /\ wpc \in {"exited", "dead"}
    /\ closed' = "done"
    /\ IF rctx = "cli"
       THEN /\ \E written \in BOOLEAN, persist \in BOOLEAN :
                LET df == records_to_dataframe(experiment_ids)
                    ok == written /\ df.raised = ""
                IN  /\ exported' = IF ok THEN <<df>> ELSE <<>>
                    /\ db_file' = unlink_db_file(ok, persist)
            /\ rpc' = "stopped"
       ELSE /\ rpc' = "idle"
            /\ UNCHANGED <<exported, db_file>>
    /\ UNCHANGED <<conn, instances, metadata, variables, records,
                   experiment_ids, buf, buf_size, buf_queue, unfinished,
                   shutdown, exc, var_memo, wpc, wbuf, rctx, now, accepted,
                   staged_at_shutdown, pure, client, threads>>

\* ----------------------------------------------------------- specification
\* The server after construction: BufferedExperimentInterface.__init__ over
\* an empty store, no connection yet.
ServerInit ==
    /\ conn = [c \in Conns |-> InitConn]
    /\ instances = <<>>
    /\ metadata = {}
    /\ variables = {}
    /\ records = {}
    /\ experiment_ids = {}
    /\ buf = <<>>
    /\ buf_size \in 1..MaxChunkSize
    /\ buf_queue = <<>>
    /\ unfinished = 0
    /\ shutdown = FALSE
    /\ exc = NULL
    /\ var_memo = {}
    /\ wpc = "start"
    /\ wbuf = <<>>
    /\ rpc = "idle"
    /\ rctx = "none"
    /\ closed = "no"
    /\ exported = <<>>
    /\ now = 0
    /\ accepted = {}
    /\ staged_at_shutdown = <<>>
    /\ db_file = "present"

Init == ServerInit /\ pure = <<>> /\ client = <<>> /\ threads = <<>>

Next ==
    \/ \E c \in Conns : \E chunk \in Chunks : DataReceived(c, chunk)
    \/ \E c \in Conns : ConnectionLost(c)
    \/ Shutdown
    \/ StopFactory
    \/ FlushWaitDone
    \/ JoinWaitDone
    \/ ThreadJoinDone
    \/ WorkerStart
    \/ WorkerGet
    \/ WorkerFlush
    \/ WorkerDrain

Spec == Init /\ [][Next]_vars

\* ------------------------------------------------------------------ claims
\* Connection c waits for a message in the given protocol state.
Waiting(c, st) ==
    conn[c].state = st /\ ~conn[c].called /\ conn[c].transport = "open"

Welcomes(out) == {i \in 1..Len(out) : out[i].type = "welcome"}

MismatchChunks ==
    {ch \in Chunks : Head(ch) \in VersionFrames /\ Head(ch).major # version_major}

\* C2: when the first message of a connection is a version message of another
\* major (any minor), nothing is sent, the connection is closed and neither
\* an ExperimentInstance row nor a metadata row is created.
C2_VersionMismatchRejected ==
    [][\A c \in Conns : \A ch \in MismatchChunks :
            (/\ conn[c].nrecv = 0
             /\ Waiting(c, "AwaitVersion")
             /\ DataReceived(c, ch))
            => /\ conn'[c].out = <<>>
               /\ conn'[c].transport # "open"
               /\ conn'[c].exp_id = 0
               /\ instances' = instances
               /\ metadata' = metadata]_vars

\* C2 witness: a connection closed after a version message of another major.
C2_Witness ==
    \E c \in Conns :
        /\ conn[c].mismatch
        /\ conn[c].transport # "open"
        /\ conn[c].out = <<>>

\* Record rows stored for the accepted record message m, under a variable of
\* the experiment of the connection that sent it.
RowsOf(m) ==
    {r \in records : /\ r.msg = m.msg
                     /\ \E v \in variables : /\ v.id = r.variable_id
                                             /\ v.instance_id = m.exp_id}

\* C3: once close() has completed, every record message that was accepted
\* (acknowledged with success) on a connection in Recording has exactly as
\* many Record rows in the store as it carried variables.
C3_AcceptedRecordsCommitted ==
    closed = "done" =>
        \A m \in accepted : Cardinality(RowsOf(m)) = Cardinality(m.names)

\* The table holds the staged sample u in the cell of its experiment,
\* timestamp and variable.
ExportRow(table, u) ==
    /\ <<u.exp_id, u.timestamp>> \in table.index
    /\ u.name \in table.columns
    /\ table.cell[<<<<u.exp_id, u.timestamp>>, u.name>>] = <<u.value>>

\* C4: the samples that were in the staging buffer when shutdown began are
\* among the exported records.
C4_PartialChunkExported ==
    exported # <<>> =>
        \A i \in 1..Len(staged_at_shutdown) :
            ExportRow(exported[1], staged_at_shutdown[i])

\* C4 witness: an export after a shutdown that began with a partial chunk in
\* staging.
C4_Witness ==
    /\ exported # <<>>
    /\ staged_at_shutdown # <<>>
    /\ Len(staged_at_shutdown) < buf_size

\* C5: a close() that begins after the worker has failed does not wait for a
\* queue the worker will never drain: when its final flush has handed its
\* chunk over, no task is unfinished, so that wait_for_flush() returns and
\* the stored exception is re-raised.
C5_CloseAfterFailureTerminates ==
    [][(wpc = "dead" /\ rpc = "idle" /\ rpc' = "flush_wait")
        => (unfinished' = 0 /\ exc # NULL)]_vars

\* A chunk is put on the worker's queue in this step.
HandOff == Len(buf_queue') > Len(buf_queue)

\* C6: after the worker has failed, no hand-off puts a chunk on the queue.
C6_NoHandOffAfterFailure ==
    [][wpc = "dead" => ~HandOff]_vars

\* C7: after close() has completed, a record message is not acknowledged and
\* no sample reaches the staging buffer or the worker's queue.
C7_RecordAfterCloseFails ==
    [][closed = "done" =>
        /\ buf' = buf
        /\ buf_queue' = buf_queue
        /\ accepted' = accepted]_vars

\* Frames that fail decoding or schema validation.
InvalidFrames == {f \in Frames : ~validate_message(f)}

\* C8: a connection in Recording that receives a frame failing decoding or
\* schema validation is sent a status message carrying an error, its
\* experiment gets an end, the connection is closed, and the records stored
\* so far stay.
C8_InvalidFrameInRecording ==
    [][\A c \in Conns : \A f \in InvalidFrames :
            (Waiting(c, "Recording") /\ DataReceived(c, <<f>>))
            => /\ Len(conn'[c].out) = Len(conn[c].out) + 1
               /\ conn'[c].out[Len(conn'[c].out)].type = "status"
               /\ "error" \in conn'[c].out[Len(conn'[c].out)].keys
               /\ instances'[conn[c].exp_id].end # <<>>
               /\ conn'[c].transport # "open"
               /\ records \subseteq records']_vars

C10_DisconnectSetsEnd ==
    [][\A c \in Conns :
            (Waiting(c, "Recording") /\ ConnectionLost(c))
            => instances'[conn[c].exp_id].end # <<>>]_vars

\* The message types the handler of a protocol state is decorated with.
ExpectedTypes(st) ==
    IF st = "AwaitVersion" THEN {"version"} ELSE {"record", "metadata", "finish"}

\* Frame f is invalid, or not expected in protocol state st.
Rejected(st, f) ==
    ~validate_message(f) \/ ~check_message_type(ExpectedTypes(st), f)

\* A status message that carries an error.
ErrorStatus(m) == m.type = "status" /\ "error" \in m.keys

\* C11: in AwaitVersion as well as in Recording, a frame that is invalid or
\* not expected in that state is answered with one status message carrying an
\* error, and the connection is closed.
C11_ErrorReplyInEveryState ==
    [][\A c \in Conns : \A st \in {"AwaitVersion", "Recording"} :
        \A f \in Frames :
            (Waiting(c, st) /\ Rejected(st, f) /\ DataReceived(c, <<f>>))
            => /\ Len(conn'[c].out) = Len(conn[c].out) + 1
               /\ ErrorStatus(conn'[c].out[Len(conn'[c].out)])
               /\ conn'[c].transport # "open"]_vars

\* Schema-valid frames of a type the Recording handler does not take.
UnexpectedInRecording ==
    {f \in Frames : validate_message(f)
                    /\ ~check_message_type(ExpectedTypes("Recording"), f)}

\* C12: a schema-valid message of a type not allowed in Recording changes no
\* instance, metadata or staged sample on behalf of its payload, is answered
\* with a status message carrying an error, sets the experiment's end and
\* closes the connection.
C12_UnexpectedTypeInRecording ==
    [][\A c \in Conns : \A f \in UnexpectedInRecording :
            (Waiting(c, "Recording") /\ DataReceived(c, <<f>>))
            => /\ DOMAIN instances' = DOMAIN instances
               /\ metadata' = metadata
               /\ buf' = buf /\ buf_queue' = buf_queue
               /\ Len(conn'[c].out) = Len(conn[c].out) + 1
               /\ ErrorStatus(conn'[c].out[Len(conn'[c].out)])
               /\ instances'[conn[c].exp_id].end # <<>>
               /\ conn'[c].transport # "open"]_vars

\* The call the Recording handler makes for frame f binds a parameter twice.
Collides(f) ==
    IF f.type = "record"
    THEN KeywordCollision({"experiment_id", "timestamp"}, f.names)
    ELSE KeywordCollision({"experiment_id"}, {f.label})

\* Record and metadata frames the Recording handler can hand to the interface.
AcceptableFrames == {f \in RecordFrames \cup MetadataFrames : ~Collides(f)}

AcceptableChunks ==
    {ch \in Chunks : \A i \in 1..Len(ch) : ch[i] \in AcceptableFrames}

\* The reply the Recording handler writes after it has handled frame f.
Reply(f) ==
    IF f.type = "record"
    THEN OutMsg("status", {"success", "info"}, 0, Cardinality(f.names))
    ELSE OutMsg("status", {"success"}, 0, 0)

Replies(ch) == [i \in 1..Len(ch) |-> Reply(ch[i])]

\* The samples of the frames of ch, in arrival order, when ch is delivered to
\* connection c after k earlier frames.
RECURSIVE SamplesOf(_, _, _)
SamplesOf(c, k, ch) ==
    IF ch = <<>> THEN <<>>
    ELSE LET f == Head(ch)
             ns == NameSeq(f.names)
         IN  [i \in 1..Len(ns) |->
                VarUpdate(f.timestamp, ns[i], k + 1, conn[c].exp_id, <<c, k + 1>>)]
             \o SamplesOf(c, k + 1, Tail(ch))

RECURSIVE Flatten(_)
Flatten(q) == IF q = <<>> THEN <<>> ELSE Head(q) \o Flatten(Tail(q))

\* The samples not yet taken by the worker, oldest first.
Pending(q, b) == Flatten(q) \o b

\* This step delivers frames to connection c (every delivery counts them).
Delivered(c) == conn'[c].nrecv > conn[c].nrecv

\* C13: the messages of a connection are handled in arrival order and each
\* reply is written before the next message is handled: what a connection
\* has been sent is only ever extended at its end; a chunk of record and
\* metadata messages received in Recording extends it by the replies to these
\* messages in the order of the messages, and the samples are staged in that
\* order; a version message followed by one more message in the same chunk
\* is answered by the welcome and then the reply to the second message.
C13_RepliesInArrivalOrder ==
    [][\A c \in Conns :
        /\ Len(conn'[c].out) >= Len(conn[c].out)
        /\ SubSeq(conn'[c].out, 1, Len(conn[c].out)) = conn[c].out
        /\ (Waiting(c, "Recording") /\ ~shutdown /\ Delivered(c)) =>
            \A ch \in AcceptableChunks :
                DataReceived(c, ch)
                => /\ conn'[c].out = conn[c].out \o Replies(ch)
                   /\ Pending(buf_queue', buf')
                        = Pending(buf_queue, buf)
                            \o SamplesOf(c, conn[c].nrecv, ch)
        /\ (Waiting(c, "AwaitVersion") /\ ~shutdown /\ Delivered(c)) =>
            \A v \in VersionFrames : \A f \in AcceptableFrames :
                (v.major = version_major /\ DataReceived(c, <<v, f>>))
                => conn'[c].out =
                    <<OutMsg("welcome", {"instance_id"}, conn'[c].exp_id, 0),
                      Reply(f)>>]_vars

\* C13 witness: a connection that was sent the welcome, then the reply to a
\* record message with two variables, then the reply to a metadata message.
C13_Witness ==
    \E c \in Conns :
        /\ Waiting(c, "Recording") /\ conn[c].nrecv = 3
        /\ Len(conn[c].out) = 3
        /\ conn[c].out[1].type = "welcome"
        /\ conn[c].out[2] = OutMsg("status", {"success", "info"}, 0, 2)
        /\ conn[c].out[3] = OutMsg("status", {"success"}, 0, 0)

\* All samples of the accepted record message m are in the store.
Committed(m) == Cardinality(RowsOf(m)) = Cardinality(m.names)

\* Message m1 was submitted before m2 on the same connection.
Before(m1, m2) == m1.msg[1] = m2.msg[1] /\ m1.msg[2] < m2.msg[2]

\* C14: the samples of a connection reach the store in submission order:
\* whenever a sample of a record message is in the store, so are all samples
\* of every record message accepted earlier on the same connection, and the
\* samples of one message are committed together.
C14_SubmissionOrderCommit ==
    /\ \A m1, m2 \in accepted :
        (Before(m1, m2) /\ RowsOf(m2) # {}) => Committed(m1)
    /\ \A m \in accepted : RowsOf(m) # {} => Committed(m)

\* C14 witness: two record messages of one connection, handed over as two
\* chunks, both committed.
C14_Witness ==
    /\ buf_size = 1
    /\ \E m1, m2 \in accepted :
        /\ Before(m1, m2)
        /\ m1.names # {} /\ m2.names # {}
        /\ Committed(m1) /\ Committed(m2)

\* The frames of ch delivered to connection c one per chunk: a chunk is
\* delivered while the transport is open.
RECURSIVE OneByOne(_, _, _, _)
OneByOne(s, c, ch, t) ==
    IF ch = <<>> \/ s.conn[c].transport # "open" THEN s
    ELSE OneByOne(dataReceived(s, c, <<Head(ch)>>, t), c, Tail(ch), t)

\* Snapshots s1 and s2 are the same as far as a peer and the store can tell:
\* replies, protocol state, open or closed, rows, staged and queued samples.
SameOutcome(c, s1, s2) ==
    /\ s1.conn[c].out = s2.conn[c].out
    /\ s1.conn[c].state = s2.conn[c].state
    /\ s1.conn[c].exp_id = s2.conn[c].exp_id
    /\ (s1.conn[c].transport = "open") = (s2.conn[c].transport = "open")
    /\ s1.conn[c].transport = "open" => s1.conn[c].called = s2.conn[c].called
    /\ \A d \in Conns \ {c} : s1.conn[d] = s2.conn[d]
    /\ s1.instances = s2.instances
    /\ s1.metadata = s2.metadata
    /\ s1.experiment_ids = s2.experiment_ids
    /\ s1.buf = s2.buf
    /\ s1.buf_queue = s2.buf_queue
    /\ s1.unfinished = s2.unfinished
    /\ s1.accepted = s2.accepted
    /\ s1.now = s2.now

MultiChunks == {ch \in Chunks : Len(ch) > 1}

RowsAt(table, k) == {r \in table : MetadataKey(r) = k}
RowsElsewhere(table, k) == {r \in table : MetadataKey(r) # k}

\* The write of value v under key k left exactly one row under k, holding v,
\* and touched no other row.
Upserted(k, v) ==
    /\ RowsAt(metadata', k) = {[instance_id |-> k[1], label |-> k[2], value |-> v]}
    /\ RowsElsewhere(metadata', k) = RowsElsewhere(metadata, k)

\* C16: the metadata table never holds two rows for one (experiment, label);
\* the handshake writes the default metadata and the address of the new
\* experiment and nothing else; a metadata message written for an experiment
\* leaves exactly one row for its label, holding the value of this last
\* write, and no other row changes; two writes of one label in one chunk
\* leave the value of the second.
C16_MetadataUpsert ==
    /\ [](\A r1, r2 \in metadata : MetadataKey(r1) = MetadataKey(r2) => r1 = r2)
    /\ [][\A c \in Conns : Delivered(c) =>
            /\ Waiting(c, "Recording") =>
                \A f \in MetadataFrames \cap AcceptableFrames :
                    /\ DataReceived(c, <<f>>)
                        => Upserted(<<conn[c].exp_id, f.label>>, f.value)
                    /\ \A g \in MetadataFrames \cap AcceptableFrames :
                        (g.label = f.label /\ DataReceived(c, <<f, g>>))
                        => Upserted(<<conn[c].exp_id, g.label>>, g.value)
            /\ Waiting(c, "AwaitVersion") =>
                \A v \in VersionFrames :
                    (v.major = version_major /\ DataReceived(c, <<v>>))
                    => metadata' = metadata \cup
                        {[instance_id |-> conn'[c].exp_id, label |-> l,
                          value |-> default_metadata[l]] :
                            l \in DOMAIN default_metadata}
                        \cup {[instance_id |-> conn'[c].exp_id,
                               label |-> "address", value |-> address(c)["address"]]}
        ]_vars

\* C16 witness: an experiment whose label "k" was written twice and has one
\* row.
C16_Witness ==
    \E c \in Conns :
        /\ Waiting(c, "Recording") /\ conn[c].nrecv = 3
        /\ Len(conn[c].out) = 3
        /\ conn[c].out[2] = OutMsg("status", {"success"}, 0, 0)
        /\ conn[c].out[3] = OutMsg("status", {"success"}, 0, 0)
        /\ Cardinality(RowsAt(metadata, <<conn[c].exp_id, "k">>)) = 1
        /\ Cardinality(RowsAt(metadata, <<conn[c].exp_id, "address">>)) = 1

\* The variable rows of experiment e named n.
VariablesOf(e, n) == {v \in variables : v.instance_id = e /\ v.name = n}

\* C17: no experiment has two Variable rows of one name, variable ids are
\* unique, every Record row belongs to a Variable row, and the samples of a
\* committed record message lie under the variable that has the sample's
\* name in the message's experiment: all samples of one name in one
\* experiment share one variable id, whatever chunk they were committed in.
C17_OneVariablePerName ==
    /\ \A v1, v2 \in variables :
        (v1.id = v2.id \/ (v1.instance_id = v2.instance_id /\ v1.name = v2.name))
        => v1 = v2
    /\ \A r \in records : \E v \in variables : v.id = r.variable_id
    /\ \A m \in accepted : Committed(m) =>
        \A n \in m.names :
            \E v \in VariablesOf(m.exp_id, n) :
                \E r \in records : r.msg = m.msg /\ r.variable_id = v.id

\* C17 witness: a variable that holds samples committed in two chunks.
C17_Witness ==
    /\ buf_size = 1
    /\ \E v \in variables : \E r1, r2 \in records :
            /\ r1.variable_id = v.id /\ r2.variable_id = v.id
            /\ r1.msg # r2.msg

\* Frame f causes a per-connection error in protocol state st: it is invalid,
\* not expected in st, or a version message of another major.
ConnectionError(st, f) ==
    \/ Rejected(st, f)
    \/ st = "AwaitVersion" /\ f.type = "version" /\ f.major # version_major

\* Between snapshots s1 and s2 nothing of a connection other than c changed:
\* protocol object and transport, experiment rows, metadata rows, and the
\* staged and queued samples (c errs before any of its samples is staged).
OthersSame(c, s1, s2) ==
    /\ \A d \in Conns \ {c} : s2.conn[d] = s1.conn[d]
    /\ \A id \in DOMAIN s1.instances :
        id # s1.conn[c].exp_id =>
            (id \in DOMAIN s2.instances /\ s2.instances[id] = s1.instances[id])
    /\ {r \in s2.metadata : r.instance_id # s1.conn[c].exp_id}
        = {r \in s1.metadata : r.instance_id # s1.conn[c].exp_id}
    /\ s2.buf = s1.buf
    /\ s2.buf_queue = s1.buf_queue
    /\ s2.unfinished = s1.unfinished
    /\ s2.experiment_ids = s1.experiment_ids

\* C18: a chunk that starts with a frame causing a per-connection error on c
\* (whatever follows it in the chunk) changes nothing of any other
\* connection: protocol state, transport, experiment row, metadata, staged,
\* queued and stored samples; the reactor stays idle and the worker
\* untouched, so that the other connections keep being served.
C18_ErrorsAreLocal ==
    /\ [](\A c \in Conns : \A st \in {"AwaitVersion", "Recording"} :
            (rpc = "idle" /\ Waiting(c, st)) =>
                \A ch \in Chunks : \A t \in {now, now + 1} :
                    (/\ ConnectionError(st, Head(ch))
                     /\ Received + Len(ch) <= MaxRecv /\ t <= MaxNow)
                    => OthersSame(c, Snapshot, dataReceived(Snapshot, c, ch, t)))
    /\ [][\A c \in Conns : Delivered(c) =>
            \A st \in {"AwaitVersion", "Recording"} : Waiting(c, st) =>
                \A f \in Frames :
                    (ConnectionError(st, f) /\ DataReceived(c, <<f>>))
                    => /\ \A d \in Conns \ {c} : conn'[d] = conn[d]
                       /\ records' = records /\ variables' = variables
                       /\ buf' = buf /\ buf_queue' = buf_queue
                       /\ rpc' = "idle" /\ wpc' = wpc /\ wbuf' = wbuf
                       /\ shutdown' = shutdown /\ closed' = closed]_vars

\* C18 witness: a connection dropped for a version mismatch next to a
\* connection that is recording, its experiment open and its samples stored.
C18_Witness ==
    \E c, d \in Conns :
        /\ c # d
        /\ conn[c].mismatch /\ conn[c].transport # "open"
        /\ Waiting(d, "Recording")
        /\ instances[conn[d].exp_id].end = <<>>
        /\ \E m \in accepted : m.msg[1] = d /\ m.names # {} /\ Committed(m)

\* After the step connection c is in Recording, waiting for the next message.
StaysRecording(c) ==
    /\ conn'[c].state = "Recording" /\ ~conn'[c].called
    /\ conn'[c].transport = "open"

\* C19: every schema-valid record message received in Recording while the
\* writer is open is answered with a status message with success and
\* info.recorded equal to the number of its variables (0 for none), and the
\* connection stays in Recording.
C19_RecordAcknowledged ==
    [][\A c \in Conns : (Delivered(c) /\ Waiting(c, "Recording") /\ ~shutdown) =>
        \A f \in RecordFrames :
            DataReceived(c, <<f>>)
            => /\ conn'[c].out = Append(conn[c].out, Reply(f))
               /\ Reply(f).recorded = Cardinality(f.names)
               /\ StaysRecording(c)]_vars

\* C20: every schema-valid metadata message received in Recording, whatever
\* its key, is upserted for the connection's experiment and answered with a
\* status message with success, and the connection stays in Recording.
C20_MetadataAcknowledged ==
    [][\A c \in Conns : (Delivered(c) /\ Waiting(c, "Recording")) =>
        \A f \in MetadataFrames :
            DataReceived(c, <<f>>)
            => /\ Upserted(<<conn[c].exp_id, f.label>>, f.value)
               /\ conn'[c].out = Append(conn[c].out, Reply(f))
               /\ StaysRecording(c)]_vars

\* The metadata rows an experiment has from its handshake with the peer of
\* connection c.
HandshakeMetadata(id, c) ==
    {[instance_id |-> id, label |-> l, value |-> default_metadata[l]] :
        l \in DOMAIN default_metadata}
    \cup {[instance_id |-> id, label |-> "address", value |-> address(c)["address"]]}

SenderExperiment(msg) == conn[msg[1]].exp_id

\* C22: the connections past the handshake have pairwise distinct experiment
\* ids; every sample, staged, queued or held by the worker, carries the
\* experiment id of the connection that sent it, and every Record row lies
\* under a variable of the experiment of the connection that sent the sample.
C22_SamplesStayInTheirExperiment ==
    /\ \A c, d \in Conns :
        (c # d /\ conn[c].exp_id # 0) => conn[c].exp_id # conn[d].exp_id
    /\ LET staged == Pending(buf_queue, buf) \o wbuf IN
       \A i \in 1..Len(staged) :
            staged[i].exp_id = SenderExperiment(staged[i].msg)
    /\ \A r \in records : \E v \in variables :
            /\ v.id = r.variable_id
            /\ SenderExperiment(r.msg) # 0
            /\ v.instance_id = SenderExperiment(r.msg)

\* C22 witness: samples of two connections, committed from one shared chunk.
C22_Witness ==
    /\ buf_size = 2
    /\ \E m1, m2 \in accepted :
        /\ m1.msg[1] # m2.msg[1]
        /\ Cardinality(m1.names) = 1 /\ Cardinality(m2.names) = 1
        /\ Committed(m1) /\ Committed(m2)
        /\ m1.exp_id # m2.exp_id

\* C23: once close() has completed the writer's backlog is zero: no chunk is
\* queued, no task is unfinished, the worker holds no sample for a commit and
\* the staging buffer is empty.
C23_BacklogZeroAfterClose ==
    closed = "done" =>
        /\ buf = <<>>
        /\ buf_queue = <<>> /\ unfinished = 0
        /\ wbuf = <<>>

\* close(), at its return: nothing is staged, queued or being committed.
CloseReturnsDrained ==
    [][(closed # "done" /\ closed' = "done") =>
        /\ buf' = <<>>
        /\ buf_queue' = <<>> /\ unfinished' = 0
        /\ wbuf' = <<>>]_vars

\* flush(blocking=True) returns to its caller in this step.
FlushReturns ==
    /\ rpc = "flush_wait" /\ exc = NULL
    /\ rpc' # "flush_wait" \/ rctx' # rctx

\* C24: a sample in the staging buffer has no row in the store, and when
\* flush(blocking=True) returns, every record message accepted before the
\* call has all its samples in the store and the staging buffer is empty.
C24_DeferredUntilHandOff ==
    /\ [](\A i \in 1..Len(buf) : \A r \in records : r.msg # buf[i].msg)
    /\ [][FlushReturns =>
            /\ buf = <<>> /\ buf' = <<>>
            /\ \A m \in accepted : Committed(m)]_vars

\* C24 witness: a blocking flush that began with samples in staging has
\* returned, and the writer is not yet shut down.
C24_Witness ==
    /\ rpc = "join_wait"
    /\ staged_at_shutdown # <<>>
    /\ \A i \in 1..Len(staged_at_shutdown) :
        \E m \in accepted : m.msg = staged_at_shutdown[i].msg /\ Committed(m)

\* All samples of the accepted record message m are in the staging buffer.
Staged(m) ==
    \A n \in m.names : \E i \in 1..Len(buf) : buf[i].msg = m.msg /\ buf[i].name = n

\* C25: the staging buffer always holds fewer samples than the chunk size.
\* While the writer is open, a record message whose samples make staging
\* reach the chunk size has the whole staging content put on the queue as
\* one chunk and staging cleared; otherwise its samples are appended to
\* staging and nothing is queued.  When the worker has caught up, every
\* accepted sample that is no longer staged is in the store.
C25_AutomaticHandOff ==
    /\ [](/\ Len(buf) < buf_size
          /\ (~shutdown /\ unfinished = 0) =>
                \A m \in accepted : Staged(m) \/ Committed(m))
    /\ [][\A c \in Conns : (Delivered(c) /\ Waiting(c, "Recording") /\ ~shutdown) =>
            \A f \in RecordFrames \cap AcceptableFrames :
                DataReceived(c, <<f>>)
                => LET upd == SamplesOf(c, conn[c].nrecv, <<f>>) IN
                   IF Len(buf) + Len(upd) >= buf_size
                   THEN /\ buf' = <<>>
                        /\ buf_queue' = Append(buf_queue, buf \o upd)
                        /\ unfinished' = unfinished + 1
                   ELSE /\ buf' = buf \o upd
                        /\ buf_queue' = buf_queue
                        /\ unfinished' = unfinished]_vars

\* C25 witness: with chunk size 2, two record messages of one sample each
\* were handed over as one chunk, the worker has caught up and both samples
\* are in the store.
C25_Witness ==
    /\ buf_size = 2 /\ buf = <<>> /\ unfinished = 0 /\ ~shutdown
    /\ rpc = "idle" /\ closed = "no"
    /\ \E m1, m2 \in accepted :
        /\ m1 # m2
        /\ Cardinality(m1.names) = 1 /\ Cardinality(m2.names) = 1
        /\ Committed(m1) /\ Committed(m2)
        /\ accepted = {m1, m2}

\* C26: while the writer is not shut down and the worker has not failed,
\* record_variables completes for every record message, wherever the worker
\* stands and however many chunks are on the queue: it raises nothing and
\* its samples are staged or queued behind everything handed over before.
C26_RecordNeverBlocks ==
    \A c \in Conns : (Waiting(c, "Recording") /\ ~shutdown /\ wpc # "dead") =>
        \A f \in RecordFrames \cap AcceptableFrames :
            LET s1 == record_variables(Snapshot, conn[c].exp_id, f.timestamp,
                                       f.names, <<c, conn[c].nrecv + 1>>)
            IN  /\ s1.raised = ""
                /\ Pending(s1.buf_queue, s1.buf)
                    = Pending(buf_queue, buf) \o SamplesOf(c, conn[c].nrecv, <<f>>)

\* C26 witness: three record messages were accepted, each handed over as a
\* chunk of its own, while the worker had taken none of them.
C26_Witness ==
    /\ buf_size = 1 /\ ~shutdown /\ wpc # "dead"
    /\ Len(buf_queue) = 3
    /\ Cardinality(accepted) = 3
    /\ \E c \in Conns : Waiting(c, "Recording")

\* cli.main._shutdown has ended with an exception of the export.
ExportFailed == rpc = "stopped" /\ exported = <<>>

\* C27: the store file is deleted only in the step in which the export
\* completes, after close() has drained the writer: whenever the file is
\* gone, close() has completed, nothing is staged, queued or uncommitted and
\* the export has its rows; when close() has not completed or the export
\* failed, the file is there.
C27_StoreDeletedAfterExport ==
    /\ [](/\ db_file = "deleted" =>
                /\ closed = "done" /\ exported # <<>>
                /\ buf = <<>> /\ buf_queue = <<>> /\ unfinished = 0
          /\ (closed # "done" \/ ExportFailed) => db_file = "present")
    /\ [][db_file' # db_file =>
            /\ closed # "done" /\ closed' = "done"
            /\ exported = <<>> /\ exported' # <<>>]_vars

\* C27 witness: a run that recorded samples ended with the store deleted.
C27_Witness ==
    /\ db_file = "deleted"
    /\ \E m \in accepted : m.names # {} /\ Committed(m)

\* The committed samples of the exported experiments: experiment, variable
\* name, timestamp and value of every Record row of their variables.
CommittedSamples ==
    {<<v.instance_id, v.name, r.timestamp, r.value>> :
        <<v, r>> \in {p \in variables \X records :
                        /\ p[2].variable_id = p[1].id
                        /\ p[1].instance_id \in experiment_ids}}

\* C28: the table the export builds from the store has exactly one row per
\* (experiment, timestamp) pair of the committed samples of the exported
\* experiments and one column per variable name among them; the cell of a
\* row and a column holds the value of the sample with that experiment,
\* timestamp and name, and is empty when there is none; the pivot does not
\* fail.  The table an export has read has a row for every record message
\* with variables that was committed by then.
C28_ExportIsPivot ==
    LET table == records_to_dataframe(experiment_ids) IN
    /\ table.raised = ""
    /\ table.index = {<<x[1], x[3]>> : x \in CommittedSamples}
    /\ table.columns = {x[2] : x \in CommittedSamples}
    /\ DOMAIN table.cell = table.index \X table.columns
    /\ \A k \in table.index, n \in table.columns :
        LET here == {x \in CommittedSamples : <<x[1], x[3]>> = k /\ x[2] = n}
        IN  IF here = {} THEN table.cell[<<k, n>>] = <<>>
            ELSE \A x \in here : table.cell[<<k, n>>] = <<x[4]>>
    /\ (exported # <<>> /\ rpc = "stopped") =>
        /\ exported[1] = table
        /\ \A m \in accepted : (m.names # {} /\ Committed(m)) =>
                <<m.exp_id, m.timestamp>> \in table.index

\* C28 witness: an exported table with rows of two experiments at the same
\* timestamp, two columns and an empty cell.
C28_Witness ==
    /\ exported # <<>> /\ rpc = "stopped"
    /\ Cardinality(exported[1].columns) = 2
    /\ \E k1, k2 \in exported[1].index :
        /\ k1[1] # k2[1] /\ k1[2] = k2[2]
        /\ \E n \in exported[1].columns :
            /\ exported[1].cell[<<k1, n>>] = <<>>
            /\ exported[1].cell[<<k2, n>>] # <<>>

\* ------------------------------------------------------------------ codec
\* Python values, as far as the codec and the message schema tell them
\* apart: t is the type, n the number held (int, float, bool, the int of a
\* UUID, a datetime counted in ticks), s the characters of a str, a the
\* tzinfo of a datetime or the class of an exception, kv the items of a dict
\* as <<key, value>> pairs (keys are strs, written as TLA+ strings).
Py(t, n, s, a, kv) == [t |-> t, n |-> n, s |-> s, a |-> a, kv |-> kv]
PyNone == Py("NoneType", 0, <<>>, "", {})
PyInt(n) == Py("int", n, <<>>, "", {})
PyFloat(n) == Py("float", n, <<>>, "", {})
PyBool(b) == Py("bool", IF b THEN 1 ELSE 0, <<>>, "", {})
PyStr(s) == Py("str", 0, s, "", {})
PyType == Py("type", 0, <<>>, "", {})
PyDatetime(n, tzinfo) == Py("datetime", n, <<>>, tzinfo, {})
PyUUID(n) == Py("UUID", n, <<>>, "", {})
PyDict(kv) == Py("dict", 0, <<>>, "", kv)
Raise(e) == Py("raise", 0, <<>>, e, {})

keys(d) == {p[1] : p \in d.kv}
getitem(d, k) == (CHOOSE p \in d.kv : p[1] = k)[2]

\* Width of the hexadecimal form of a UUID.
HexWidth == 32
HexDigits == <<"0", "1", "2", "3", "4", "5", "6", "7", "8", "9",
               "a", "b", "c", "d", "e", "f">>

RECURSIVE hex(_)
hex(n) ==
    IF n < 16 THEN <<HexDigits[n + 1]>>
    ELSE hex(n \div 16) \o <<HexDigits[(n % 16) + 1]>>

\* f'{obj.int:32x}': lowercase hexadecimal, right-aligned in 32 characters,
\* filled with spaces.
format_32x(n) ==
    LET d == hex(n) IN
    IF Len(d) >= HexWidth THEN d
    ELSE [i \in 1..(HexWidth - Len(d)) |-> " "] \o d

\* str.strip(): leading and trailing spaces removed.
RECURSIVE strip(_)
strip(s) ==
    IF s = <<>> THEN s
    ELSE IF Head(s) = " " THEN strip(Tail(s))
    ELSE IF s[Len(s)] = " " THEN strip(SubSeq(s, 1, Len(s) - 1))
    ELSE s

RECURSIVE int_16(_)
int_16(d) ==
    IF d = <<>> THEN 0
    ELSE 16 * int_16(SubSeq(d, 1, Len(d) - 1))
         + (CHOOSE i \in 0..15 : HexDigits[i + 1] = d[Len(d)])

\* uuid.UUID(hex): the string must have 32 characters; int(hex, 16) accepts
\* white space around the digits.
UUID(x) ==
    IF x.t # "str" THEN Raise("AttributeError")
    ELSE IF Len(x.s) # HexWidth THEN Raise("ValueError")
    ELSE LET d == strip(x.s) IN
         IF d = <<>> \/ \E i \in 1..Len(d) : \A j \in 1..16 : HexDigits[j] # d[i]
         THEN Raise("ValueError")
         ELSE PyUUID(int_16(d))

\* datetime.timestamp(): an aware datetime is taken in its own zone, a naive
\* one as local time; off is the offset of the local zone from UTC.
timestamp(obj, off) ==
    PyFloat(IF obj.a = "" THEN obj.n - off ELSE obj.n)

\* datetime.fromtimestamp(x) without a tz argument: a naive datetime in
\* local time.
fromtimestamp(x, off) ==
    IF x.t \in {"int", "float", "bool"} THEN PyDatetime(x.n + off, "")
    ELSE Raise("TypeError")

\* MessagePacker.encode_vartype
encode_vartype(obj, off) ==
    IF obj.t = "datetime" THEN PyDict({<<"__date__", timestamp(obj, off)>>})
    ELSE IF obj.t = "UUID" THEN PyDict({<<"__uuid__", PyStr(format_32x(obj.n))>>})
    ELSE obj

\* MessageUnpacker.decode_vartype
decode_vartype(data, off) ==
    IF "__date__" \in keys(data) THEN fromtimestamp(getitem(data, "__date__"), off)
    ELSE IF "__uuid__" \in keys(data) THEN UUID(getitem(data, "__uuid__"))
    ELSE data

\* MessagePacker.pack: a map is packed item by item, a value the packer does
\* not know goes through default=encode_vartype and the result is packed;
\* the result is the wire form (maps, strs and numbers only).
RECURSIVE pack(_, _)
pack(obj, off) ==
    IF obj.t = "dict"
    THEN PyDict({<<p[1], pack(p[2], off)>> : p \in obj.kv})
    ELSE IF obj.t \in {"datetime", "UUID"}
    THEN pack(encode_vartype(obj, off), off)
    ELSE obj

\* MessageUnpacker.feed and next: the values of a map are unpacked first,
\* then the map goes through object_hook=decode_vartype; an exception of the
\* hook ends the unpacking.
RECURSIVE unpack(_, _)
unpack(w, off) ==
    IF w.t # "dict" THEN w
    ELSE LET items == {<<p[1], unpack(p[2], off)>> : p \in w.kv}
             failed == {p \in items : p[2].t = "raise"}
         IN  IF failed # {} THEN (CHOOSE p \in failed : TRUE)[2]
             ELSE decode_vartype(PyDict(items), off)

\* The messages the codec is applied to: maps with one leaf, such a map as
\* the payload of a message, and the message of test_pack_unpack (a date and
\* a uuid).  The leaves are numbers, a str, naive and aware datetimes and
\* UUIDs; the keys include the two the codec reserves.
CodecMessages ==
    LET Datetimes == {PyDatetime(5, ""), PyDatetime(5, "utc")}
        UUIDs == {PyUUID(0), PyUUID(10), PyUUID(255), PyUUID(74565)}
        Leaves == {PyInt(1), PyFloat(2), PyStr(<<"x">>)} \cup Datetimes \cup UUIDs
        LeafKeys == {"date", "uuid", "__date__", "__uuid__"}
        LeafMaps == {PyDict({<<k, v>>}) : <<k, v>> \in LeafKeys \X Leaves}
    IN  LeafMaps
        \cup {PyDict({<<"type", PyStr(<<"x">>)>>, <<"payload", m>>}) : m \in LeafMaps}
        \cup {PyDict({<<"date", d>>, <<"uuid", u>>}) : <<d, u>> \in Datetimes \X UUIDs}

\* Offsets of the local zone from UTC, in ticks.
Offsets == {0, 1}

\* A message and a packer and an unpacker, before the message is packed.
CodecInit ==
    /\ ServerInit
    /\ client = <<>> /\ threads = <<>>
    /\ pure \in {[pc |-> "new", m |-> m, off |-> off, packed |-> <<>>,
                  unpacked |-> <<>>] : <<m, off>> \in CodecMessages \X Offsets}

server_vars == <<conn, instances, metadata, variables, records, experiment_ids,
                 buf, buf_size, buf_queue, unfinished, shutdown, exc, var_memo,
                 wpc, wbuf, rpc, rctx, closed, exported, now, accepted,
                 staged_at_shutdown, db_file>>

\* packed = packer.pack(message)
Pack ==
    /\ pure.pc = "new"
    /\ pure' = [pure EXCEPT !.pc = "packed", !.packed = <<pack(pure.m, pure.off)>>]
    /\ UNCHANGED <<server_vars, client, threads>>

\* unpacker.feed(packed); unpacked = next(unpacker)
Feed ==
    /\ pure.pc = "packed"
    /\ pure' = [pure EXCEPT !.pc = "unpacked",
                            !.unpacked = <<unpack(pure.packed[1], pure.off)>>]
    /\ UNCHANGED <<server_vars, client, threads>>

CodecNext == Pack \/ Feed

SpecCodec == CodecInit /\ [][CodecNext]_vars

\* C29: a message packed with MessagePacker and fed to MessageUnpacker comes
\* out equal to the message, whatever its leaves: numbers, strs, maps, UUIDs
\* and timestamps.
C29_CodecRoundTrip ==
    pure.pc = "unpacked" => pure.unpacked[1] = pure.m

\* The round trip of the messages that have no aware datetime and no map
\* with a key the codec reserves: UUIDs (the hexadecimal form is filled with
\* spaces, not zeros, and still parsed) and naive datetimes come out equal.
PlainRoundTrip ==
    LET reserved(m) == keys(m) \cap {"__date__", "__uuid__"} # {}
        aware(v) == v.t = "datetime" /\ v.a # ""
        plain(m) ==
            /\ ~reserved(m)
            /\ \A p \in m.kv :
                /\ ~aware(p[2]) /\ ~reserved(p[2])
                /\ \A q \in p[2].kv : ~aware(q[2])
    IN  (pure.pc = "unpacked" /\ plain(pure.m)) => pure.unpacked[1] = pure.m

\* --------------------------------------------------------- message schema
\* Schema.validate raises SchemaError or one of its subclasses.
SchemaErrors ==
    {"SchemaError", "SchemaWrongKeyError", "SchemaMissingKeyError",
     "SchemaOnlyOneAllowedError", "SchemaUnexpectedTypeError"}

\* Schema({...}).validate(data) for a schema with literal keys: the exception
\* it raises, "" if none.  required are the keys of the schema, only_one the
\* alternatives of Optional(Or(..., only_one=True)), bad the items of data
\* whose value does not validate against the schema of their key.
dict_error(data, required, only_one, bad) ==
    IF data.t # "dict" THEN "SchemaUnexpectedTypeError"
    ELSE IF ~(keys(data) \subseteq required \cup only_one) THEN "SchemaWrongKeyError"
    ELSE IF bad # {} THEN "SchemaError"
    ELSE IF ~(required \subseteq keys(data)) THEN "SchemaMissingKeyError"
    ELSE IF Cardinality(keys(data) \cap only_one) > 1
    THEN "SchemaOnlyOneAllowedError"
    ELSE ""

\* Schema({str: ...}).validate(data): every value validates (bad is empty),
\* and the key str of the schema, which is not Optional, is matched by one
\* key at least.
pattern_error(data, bad) ==
    IF data.t # "dict" THEN "SchemaUnexpectedTypeError"
    ELSE IF bad # {} THEN "SchemaError"
    ELSE IF data.kv = {} THEN "SchemaMissingKeyError"
    ELSE ""

\* _msg_payload_schemas[mtype] applied to payload: the exception raised by
\* the look-up or by Schema(payload_schema).validate(payload), "" if none.
payload_error(mtype, payload) ==
    LET number(v) == v.t \in {"int", "float", "bool"}
        sample(k, v) == IF k = "value" THEN number(v) ELSE v.t = "float"
        sample_ok(v) ==
            dict_error(v, {"value", "timestamp"}, {},
                       {q \in v.kv : ~sample(q[1], q[2])}) = ""
        classes_ok(v) == pattern_error(v, {q \in v.kv : q[2].t # "type"}) = ""
        samples_ok(v) == pattern_error(v, {q \in v.kv : ~sample_ok(q[2])}) = ""
        version(k, v) == v.t = "int"
        init(k, v) == IF k = "experiment_id" THEN v.t = "str" ELSE classes_ok(v)
        finish(k, v) == v.t = "str"
        record(k, v) == IF k = "experiment_id" THEN v.t = "str" ELSE samples_ok(v)
        status(k, v) == IF k = "success" THEN v.t = "bool" ELSE v.t = "str"
    IN  CASE mtype = "version" ->
                dict_error(payload, {"major", "minor"}, {},
                           {q \in payload.kv : ~version(q[1], q[2])})
          [] mtype = "init" ->
                dict_error(payload, {"experiment_id", "variables"}, {},
                           {q \in payload.kv : ~init(q[1], q[2])})
          [] mtype = "finish" ->
                dict_error(payload, {"experiment_id"}, {},
                           {q \in payload.kv : ~finish(q[1], q[2])})
          [] mtype = "record" ->
                dict_error(payload, {"experiment_id", "variables"}, {},
                           {q \in payload.kv : ~record(q[1], q[2])})
          [] mtype = "status" ->
                dict_error(payload, {"success"}, {"info", "error"},
                           {q \in payload.kv : ~status(q[1], q[2])})
          [] OTHER -> "KeyError"

\* Mutant of validated: the optional keys are left out of the result.
RECURSIVE validated_required_only(_)
validated_required_only(data) ==
    IF data.t # "dict" THEN data
    ELSE PyDict({<<q[1], validated_required_only(q[2])>> :
                    q \in {x \in data.kv : x[1] \notin {"info", "error"}}})

\* What Schema.validate returns for data that validates: a new dict of the
\* validated keys and values (the schemas convert nothing).
RECURSIVE validated(_)
validated(data) ==
    IF data.t # "dict" THEN data
    ELSE PyDict({<<q[1], validated(q[2])>> : q \in data.kv})

\* _ValidMessage(mtype, payload); raised is "" for a value that was returned.
ValidMessage(mtype, payload) ==
    [raised |-> "", mtype |-> mtype, payload |-> payload]

\* validate_message of messages.py, for a message with the keys 'type' and
\* 'payload': KeyError and SchemaError (with its subclasses) are turned into
\* InvalidMessageError, any other exception passes.
validate(msg) ==
    LET e == payload_error(msg.mtype, msg.payload) IN
    IF e = "" THEN ValidMessage(msg.mtype, validated(msg.payload))
    ELSE [raised |-> IF e \in {"KeyError"} \cup SchemaErrors
                     THEN "InvalidMessageError" ELSE e,
          mtype |-> "", payload |-> PyNone]

\* make_message(msg_type, payload): the dict {'type': mtype, 'payload':
\* payload} of the validated parts, written as [mtype, payload].
make_message(msg_type, payload) ==
    validate([mtype |-> msg_type, payload |-> payload])

\* valid_payloads of test_message_schemas.py.
valid_payloads ==
    LET id == PyStr(<<"e">>) IN
    [version |-> PyDict({<<"major", PyInt(13)>>, <<"minor", PyInt(12)>>}),
     init |-> PyDict({<<"experiment_id", id>>,
                      <<"variables", PyDict({<<"a", PyType>>, <<"b", PyType>>})>>}),
     finish |-> PyDict({<<"experiment_id", id>>}),
     status |-> PyDict({<<"success", PyBool(TRUE)>>, <<"info", PyStr(<<"S">>)>>}),
     record |-> PyDict({<<"experiment_id", id>>,
                <<"variables",
                  PyDict({<<"a", PyDict({<<"value", PyInt(1927)>>,
                                         <<"timestamp", PyFloat(13)>>})>>,
                          <<"c", PyDict({<<"value", PyBool(FALSE)>>,
                                         <<"timestamp", PyFloat(13)>>})>>})>>})]

\* Payloads make_message is called with: the valid ones and payloads with a
\* missing key, a key too many, a value of another type, both optional keys,
\* an empty variables map, and no map at all.
Payloads ==
    LET id == PyStr(<<"e">>)
        with_variables(v) == PyDict({<<"experiment_id", id>>, <<"variables", v>>})
    IN  {valid_payloads[t] : t \in DOMAIN valid_payloads}
        \cup {PyNone, PyDict({}), PyStr(<<"x">>),
              PyDict({<<"major", PyInt(1)>>}),
              PyDict({<<"major", PyStr(<<"1">>)>>, <<"minor", PyInt(0)>>}),
              PyDict({<<"major", PyInt(1)>>, <<"minor", PyInt(0)>>,
                      <<"patch", PyInt(0)>>}),
              PyDict({<<"experiment_id", PyInt(1)>>}),
              with_variables(PyDict({})),
              with_variables(PyDict({<<"a", PyInt(1)>>})),
              with_variables(PyDict({<<"a", PyDict({<<"value", PyFloat(1)>>,
                                          <<"timestamp", PyInt(13)>>})>>})),
              with_variables(PyDict({<<"a", PyDict({<<"value", PyFloat(1)>>})>>})),
              PyDict({<<"success", PyBool(TRUE)>>}),
              PyDict({<<"success", PyBool(FALSE)>>, <<"error", PyStr(<<"E">>)>>}),
              PyDict({<<"success", PyBool(FALSE)>>, <<"error", PyStr(<<"E">>)>>,
                      <<"info", PyStr(<<"S">>)>>}),
              PyDict({<<"error", PyStr(<<"E">>)>>}),
              PyDict({<<"success", PyBool(TRUE)>>,
                      <<"info", PyDict({<<"recorded", PyInt(1)>>})>>}),
              PyDict({<<"success", PyInt(1)>>})}

\* The types make_message is called with: those of _msg_payload_schemas and
\* two it does not have.
CalledTypes == DOMAIN valid_payloads \cup {"welcome", "metadata"}

\* A type and a payload, before make_message is called.
MessagesInit ==
    /\ ServerInit
    /\ client = <<>> /\ threads = <<>>
    /\ pure \in {[pc |-> "new", mtype |-> t, payload |-> p, made |-> <<>>,
                  valid |-> <<>>] : <<t, p>> \in CalledTypes \X Payloads}

\* msg = make_message(msg_type, payload)
MakeMessage ==
    /\ pure.pc = "new"
    /\ pure' = [pure EXCEPT !.pc = "made",
                            !.made = <<make_message(pure.mtype, pure.payload)>>]
    /\ UNCHANGED <<server_vars, client, threads>>

\* validate_message(msg), for a message make_message returned
ValidateMessage ==
    /\ pure.pc = "made"
    /\ pure.made[1].raised = ""
    /\ pure' = [pure EXCEPT !.pc = "validated",
                            !.valid = <<validate(pure.made[1])>>]
    /\ UNCHANGED <<server_vars, client, threads>>

MessagesNext == MakeMessage \/ ValidateMessage

SpecMessages == MessagesInit /\ [][MessagesNext]_vars

\* C30: make_message either returns a message or raises InvalidMessageError
\* and nothing else; validate_message of a message it returned gives back
\* the type and the payload make_message was called with; each valid payload
\* of the test is accepted under its own type and under no other.
C30_MakeValidateRoundTrip ==
    /\ pure.pc = "validated" =>
            pure.valid[1] = ValidMessage(pure.mtype, pure.payload)
    /\ pure.pc # "new" =>
        /\ pure.made[1].raised \in {"", "InvalidMessageError"}
        /\ pure.made[1].raised = "" =>
                (pure.made[1].mtype = pure.mtype /\ pure.mtype \in DOMAIN valid_payloads)
        /\ \A t \in DOMAIN valid_payloads :
            pure.payload = valid_payloads[t] =>
                (pure.made[1].raised = "" <=> pure.mtype = t)

\* C30 witness: the round trip of a status message with the optional key
\* info.
C30_Witness ==
    /\ pure.pc = "validated"
    /\ pure.mtype = "status"
    /\ "info" \in keys(pure.payload)
    /\ pure.valid[1].payload = pure.payload

\* ------------------------------------------------- further server claims
\* The chunk the worker commits in its next step (<<>> if it commits none).
ChunkTaken ==
    IF wpc = "flush" THEN wbuf
    ELSE IF wpc = "drain" /\ buf_queue # <<>> THEN Head(buf_queue)
    ELSE <<>>

\* C36: no two Record rows share (variable_id, timestamp), and the worker
\* commits the rows of a chunk all or none: a chunk with a sample that
\* repeats the experiment, variable name and timestamp of an earlier sample,
\* of the chunk or of the store, leaves the records as they were; any other
\* chunk adds one row per sample.
C36_RecordKeyUnique ==
    /\ [](\A r1, r2 \in records : RecordKey(r1) = RecordKey(r2) => r1 = r2)
    /\ [][((WorkerFlush \/ WorkerDrain) /\ ChunkTaken # <<>>) =>
            LET chunk == ChunkTaken
                same(u, w) == /\ u.exp_id = w.exp_id /\ u.name = w.name
                              /\ u.timestamp = w.timestamp
                stored(u) == \E v \in variables, r \in records :
                                /\ v.id = r.variable_id
                                /\ v.instance_id = u.exp_id /\ v.name = u.name
                                /\ r.timestamp = u.timestamp
                repeats == \E i \in 1..Len(chunk) :
                                \/ stored(chunk[i])
                                \/ \E j \in 1..(i - 1) : same(chunk[i], chunk[j])
            IN  IF repeats THEN records' = records
                ELSE /\ records \subseteq records'
                     /\ Cardinality(records') = Cardinality(records) + Len(chunk)
                     /\ \A i \in 1..Len(chunk) : \E r \in records' \ records :
                            r.msg = chunk[i].msg /\ r.timestamp = chunk[i].timestamp]_vars

\* C36 witness: a chunk repeating a stored key was refused as a whole.
C36_Witness ==
    /\ wpc = "dead" /\ records # {}
    /\ \E m \in accepted : m.names # {} /\ RowsOf(m) = {}
    /\ \A r1, r2 \in records : RecordKey(r1) = RecordKey(r2) => r1 = r2

\* What a server handler can change: the store, staging, the queue and what
\* connection c was sent.
Effects(s, c) ==
    <<s.instances, s.metadata, s.buf, s.buf_queue, s.accepted, s.conn[c].out>>

\* C38: a connection whose Deferred has fired without a new one being
\* installed (after finish, after the errback or after a rejected version)
\* is closed: whatever message it receives then, the store, staging and the
\* queue stay as they are and nothing is sent; and the messages that follow
\* a finish message in one chunk have no effect either.
C38_ClosedConnectionInert ==
    /\ [](\A c \in Conns : conn[c].called =>
            \A f \in Frames :
                Effects(dataReceived(Snapshot, c, <<f>>, now), c) = Effects(Snapshot, c))
    /\ [][\A c \in Conns : (Delivered(c) /\ Waiting(c, "Recording")) =>
            \A f \in Frames :
                DataReceived(c, <<FinishFrame, f>>)
                => /\ conn'[c].out = conn[c].out
                   /\ metadata' = metadata
                   /\ buf' = buf /\ buf_queue' = buf_queue
                   /\ accepted' = accepted
                   /\ DOMAIN instances' = DOMAIN instances
                   /\ \A id \in DOMAIN instances :
                        id # conn[c].exp_id => instances'[id] = instances[id]]_vars

\* C38 witness: a connection received a finish message and a record message
\* after it; only the welcome was sent and nothing was staged.
C38_Witness ==
    \E c \in Conns :
        /\ conn[c].called /\ conn[c].nrecv = 3
        /\ conn[c].transport # "open"
        /\ Len(conn[c].out) = 1
        /\ instances[conn[c].exp_id].end # <<>>
        /\ buf = <<>> /\ buf_queue = <<>> /\ accepted = {}

\* The threads are scheduled fairly: the worker thread keeps running run(),
\* and a call of the reactor thread that can return does return.
SpecLive ==
    /\ Spec
    /\ WF_vars(WorkerStart) /\ WF_vars(WorkerGet) /\ WF_vars(WorkerFlush)
    /\ WF_vars(WorkerDrain)
    /\ WF_vars(FlushWaitDone) /\ WF_vars(JoinWaitDone) /\ WF_vars(ThreadJoinDone)

\* C34: a shutdown that has begun leads to close() having completed, unless
\* the worker fails: no interleaving of run() with flush(blocking=True) and
\* join() leaves close() waiting.
C34_CloseTerminates ==
    (rpc \in {"flush_wait", "join_wait", "thread_join"})
        ~> (closed = "done" \/ wpc = "dead")

\* C34 witness: close() has completed after the worker committed the samples
\* of the final flush, left its loop and exited.
C34_Witness ==
    /\ closed = "done" /\ wpc = "exited" /\ shutdown
    /\ staged_at_shutdown # <<>>
    /\ \A i \in 1..Len(staged_at_shutdown) :
        \E r \in records : r.msg = staged_at_shutdown[i].msg
    /\ buf_queue = <<>> /\ unfinished = 0


\* ------------------------------------------------- producers on threads
\* BufferedExperimentInterface used from several threads: producers call
\* record_variables, another thread calls close() (Shutdown and the waits
\* that follow it), the worker runs as before.  A step of a producer is one
\* call on the deque, the queue or the flag, none of which is guarded by a
\* lock in record_variables, flush or push_records.  threads[p] is the
\* position of producer p: local is flush's local variable buf, calls the
\* number of calls of record_variables that have ended, raised how many of
\* them ended with push_records raising.
MaxProducers == 2
MaxCalls == 2
Producers == 1..MaxProducers

\* The sample of call k of producer p: its own variable, its own timestamp.
ProducerSample(p, k) == VarUpdate(k, IF p = 1 THEN "a" ELSE "b", k, 1, <<p, k>>)

ThreadsInit ==
    /\ ServerInit
    /\ pure = <<>> /\ client = <<>>
    /\ threads = [p \in Producers |->
                    [pc |-> "idle", local |-> <<>>, calls |-> 0, raised |-> 0]]

\* record_variables, lines 232-238: extend the deque, then compare its
\* length with buf_size; flush() is called when it is reached.
record_variables_step(p) ==
    /\ \/ /\ threads[p].pc = "idle"
          /\ threads[p].calls < MaxCalls
          /\ buf' = Append(buf, ProducerSample(p, threads[p].calls + 1))
          /\ threads' = [threads EXCEPT ![p].pc = "len"]
       \/ /\ threads[p].pc = "len"
          /\ threads' = IF Len(buf) >= buf_size
                        THEN [threads EXCEPT ![p].pc = "tuple"]
                        ELSE [threads EXCEPT ![p].pc = "idle",
                                             ![p].calls = @ + 1]
          /\ buf' = buf
    /\ UNCHANGED <<conn, instances, metadata, variables, records,
                   experiment_ids, buf_size, buf_queue, unfinished, shutdown,
                   exc, var_memo, wpc, wbuf, rpc, rctx, closed, exported, now,
                   accepted, staged_at_shutdown, db_file, pure, client>>

\* flush, lines 181-182: buf = tuple(self._buf), then self._buf.clear().
flush_step(p) ==
    /\ \/ /\ threads[p].pc = "tuple"
          /\ threads' = [threads EXCEPT ![p].pc = "clear", ![p].local = buf]
          /\ buf' = buf
       \/ /\ threads[p].pc = "clear"
          /\ buf' = <<>>
          /\ threads' = [threads EXCEPT ![p].pc = "is_set"]
    /\ UNCHANGED <<conn, instances, metadata, variables, records,
                   experiment_ids, buf_size, buf_queue, unfinished, shutdown,
                   exc, var_memo, wpc, wbuf, rpc, rctx, closed, exported, now,
                   accepted, staged_at_shutdown, db_file, pure, client>>

\* push_records, lines 55-58: test the flag, then raise or put_nowait; with
\* it flush and record_variables return.
push_records_step(p) ==
    /\ \/ /\ threads[p].pc = "is_set"
          /\ threads' = IF shutdown
                        THEN [threads EXCEPT ![p].pc = "idle",
                                             ![p].local = <<>>,
                                             ![p].calls = @ + 1,
                                             ![p].raised = @ + 1]
                        ELSE [threads EXCEPT ![p].pc = "put"]
          /\ UNCHANGED <<buf_queue, unfinished>>
       \/ /\ threads[p].pc = "put"
          /\ buf_queue' = Append(buf_queue, threads[p].local)
          /\ unfinished' = unfinished + 1
          /\ threads' = [threads EXCEPT ![p].pc = "idle", ![p].local = <<>>,
                                        ![p].calls = @ + 1]
    /\ UNCHANGED <<conn, instances, metadata, variables, records,
                   experiment_ids, buf, buf_size, shutdown, exc, var_memo, wpc,
                   wbuf, rpc, rctx, closed, exported, now, accepted,
                   staged_at_shutdown, db_file, pure, client>>

ThreadsNext ==
    \/ \E p \in Producers : record_variables_step(p)
    \/ \E p \in Producers : flush_step(p)
    \/ \E p \in Producers : push_records_step(p)
    \/ Shutdown
    \/ FlushWaitDone
    \/ JoinWaitDone
    \/ ThreadJoinDone
    \/ WorkerStart
    \/ WorkerGet
    \/ WorkerFlush
    \/ WorkerDrain

SpecThreads == ThreadsInit /\ [][ThreadsNext]_vars

\* Where the sample of call k of producer p is: staged, in a local snapshot
\* that is about to be handed over, queued, with the worker, or committed.
Copies(p, k) ==
    LET u == ProducerSample(p, k)
        In(q) == Cardinality({i \in 1..Len(q) : q[i] = u})
        locals == {q \in Producers : threads[q].pc \in {"is_set", "put"}}
        RECURSIVE InLocals(_)
        InLocals(qs) ==
            IF qs = {} THEN 0
            ELSE LET q == CHOOSE x \in qs : TRUE
                 IN  In(threads[q].local) + InLocals(qs \ {q})
    IN  In(buf) + InLocals(locals) + In(Flatten(buf_queue)) + In(wbuf)
            + Cardinality({r \in records : r.msg = u.msg})

\* C32: while the interface is open and the worker is alive, every sample of
\* a call of record_variables that has returned is in exactly one place on
\* its way to the store: no interleaving of the producers loses it or hands
\* it over twice.
C32_EachSampleHandedOnce ==
    (closed = "no" /\ rpc = "idle" /\ wpc \in {"start", "loop", "flush"})
        => \A p \in Producers : \A k \in 1..threads[p].calls :
                Copies(p, k) = 1

\* C33: no chunk is in the queue once the worker has exited.
C33_NoChunkQueuedAfterExit == wpc = "exited" => buf_queue = <<>>

\* ------------------------------------------------------- the store lock
\* The calls that change the store, as the sequence of steps each makes on
\* _db_lock (a threading.RLock) and on its session.  The reactor thread
\* calls new_experiment_instance, finish_experiment_instance and
\* add_metadata; the worker calls _flush_to_db for a chunk in which n
\* samples miss the memo.  A change of the store is the pair of steps
\* <<"begin", what>>, <<"end", what>>: from the first statement on the
\* session to the return of commit().
StoreThreads == {"reactor", "worker"}

\* Mutant of store_calls: _flush_to_db merges a missing variable without
\* taking the lock.
store_calls_unlocked(t) ==
    LET change(what) == <<<<"begin", what>>, <<"end", what>>>>
        with_db_lock(body) == <<<<"acquire", "">>>> \o body \o <<<<"release", "">>>>
        add_metadata_call == with_db_lock(change("merge_metadata"))
        merge_variable == change("merge_variable")
        RECURSIVE misses(_)
        misses(n) == IF n = 0 THEN <<>> ELSE merge_variable \o misses(n - 1)
    IN  IF t = "reactor"
        THEN {with_db_lock(change("add_instance") \o add_metadata_call),
              with_db_lock(change("set_end")),
              add_metadata_call}
        ELSE {with_db_lock(<<>>) \o misses(n)
                \o with_db_lock(change("add_records")) : n \in 0..MaxChunkSize}

\* new_experiment_instance (add and commit, then add_metadata, all inside
\* the lock), finish_experiment_instance, add_metadata; _flush_to_db (the
\* lock around the session factory, around every merge of a variable and
\* around add_all / commit / close).
store_calls(t) ==
    LET change(what) == <<<<"begin", what>>, <<"end", what>>>>
        with_db_lock(body) == <<<<"acquire", "">>>> \o body \o <<<<"release", "">>>>
        add_metadata_call == with_db_lock(change("merge_metadata"))
        merge_variable == with_db_lock(change("merge_variable"))
        RECURSIVE misses(_)
        misses(n) == IF n = 0 THEN <<>> ELSE merge_variable \o misses(n - 1)
    IN  IF t = "reactor"
        THEN {with_db_lock(change("add_instance") \o add_metadata_call),
              with_db_lock(change("set_end")),
              add_metadata_call}
        ELSE {with_db_lock(<<>>) \o misses(n)
                \o with_db_lock(change("add_records")) : n \in 0..MaxChunkSize}

\* threads.todo[t]: the steps thread t has left in its call; owner and count:
\* the RLock; changing: who is between the begin and the end of a change.
LockInit ==
    /\ ServerInit
    /\ pure = <<>> /\ client = <<>>
    /\ threads = [todo |-> [t \in StoreThreads |-> <<>>],
                  owner |-> "", count |-> 0, changing |-> {}]

\* One step of thread t: start a call, or make the next step of its call.
\* RLock.acquire blocks while another thread owns the lock and counts the
\* acquisitions of its owner; release gives the lock up at count 0.
StoreStep(t) ==
    /\ IF threads.todo[t] = <<>>
       THEN \E call \in store_calls(t) :
                threads' = [threads EXCEPT !.todo[t] = call]
       ELSE LET step == Head(threads.todo[t])
                rest == [threads EXCEPT !.todo[t] = Tail(@)]
            IN  CASE step[1] = "acquire" ->
                        /\ threads.owner \in {"", t}
                        /\ threads' = [rest EXCEPT !.owner = t,
                                                   !.count = @ + 1]
                  [] step[1] = "release" ->
                        threads' = [rest EXCEPT
                            !.count = @ - 1,
                            !.owner = IF threads.count = 1 THEN "" ELSE @]
                  [] step[1] = "begin" ->
                        threads' = [rest EXCEPT
                            !.changing = @ \cup {<<t, step[2]>>}]
                  [] step[1] = "end" ->
                        threads' = [rest EXCEPT
                            !.changing = @ \ {<<t, step[2]>>}]
    /\ UNCHANGED <<server_vars, pure, client>>

LockNext == \E t \in StoreThreads : StoreStep(t)

SpecLock == LockInit /\ [][LockNext]_vars

\* C35: at most one thread is changing the store at any time, and it is the
\* thread that owns the store lock.
C35_StoreChangesExclusive ==
    \A x, y \in threads.changing : x[1] = y[1] /\ threads.owner = x[1]

\* The reactor merges the default metadata of a new instance, holding the
\* lock twice, while the worker waits for the lock to merge a variable.
C35_Witness ==
    /\ threads.changing = {<<"reactor", "merge_metadata">>}
    /\ threads.count = 2
    /\ threads.todo["worker"] # <<>>
    /\ Head(threads.todo["worker"])[1] = "acquire"
    /\ Len(threads.todo["worker"]) > 1
    /\ threads.todo["worker"][2] = <<"begin", "merge_variable">>

\* ------------------------------------------------ ExperimentWriterThread
\* db_session.ExperimentWriterThread after start(): one thread calls
\* eager_create and deferred_execute, another calls shutdown(), the writer
\* thread executes run().  The operations given to the writer succeed.
\* threads is the state of the three: the two queues, op_buf, the promises
\* that have a result, the _shutdown event, the owner of _flush_lock, and
\* the position of each thread.  A promise is the number of the call that
\* made it.
MaxOps == 3
WriterBufSize == 2

WriterInit ==
    /\ ServerInit
    /\ pure = <<>> /\ client = <<>>
    /\ threads = [urgent_ops |-> <<>>, operations |-> <<>>, op_buf |-> <<>>,
                  has_result |-> {}, is_set |-> FALSE, owner |-> "",
                  caller |-> "idle", calls |-> 0, deferred |-> {},
                  returned |-> {}, raised |-> {},
                  closer |-> "idle", writer |-> "loop"]

\* eager_create, lines 97-103: inside _flush_lock test the event, put the
\* promise on _urgent_ops and wait in get_result() for its result.
eager_create_step ==
    /\ \/ /\ threads.caller = "idle" /\ threads.calls < MaxOps
          /\ threads.owner = ""
          /\ threads' = [threads EXCEPT !.owner = "caller",
                                        !.caller = "eager_is_set"]
       \/ /\ threads.caller = "eager_is_set"
          /\ threads' = IF threads.is_set
                        THEN [threads EXCEPT !.owner = "", !.caller = "idle",
                                             !.calls = @ + 1,
                                             !.raised = @ \cup {threads.calls + 1}]
                        ELSE [threads EXCEPT !.caller = "eager_put"]
       \/ /\ threads.caller = "eager_put"
          /\ threads' = [threads EXCEPT
                            !.urgent_ops = Append(@, threads.calls + 1),
                            !.caller = "get_result"]
       \/ /\ threads.caller = "get_result"
          /\ threads.calls + 1 \in threads.has_result
          /\ threads' = [threads EXCEPT !.owner = "", !.caller = "idle",
                                        !.calls = @ + 1,
                                        !.returned = @ \cup {threads.calls + 1}]
    /\ UNCHANGED <<server_vars, pure, client>>

\* deferred_execute, lines 109-115: inside _flush_lock test the event, put
\* the promise on _operations and return it.
deferred_execute_step ==
    /\ \/ /\ threads.caller = "idle" /\ threads.calls < MaxOps
          /\ threads.owner = ""
          /\ threads' = [threads EXCEPT !.owner = "caller",
                                        !.caller = "deferred_is_set"]
       \/ /\ threads.caller = "deferred_is_set"
          /\ threads' = IF threads.is_set
                        THEN [threads EXCEPT !.owner = "", !.caller = "idle",
                                             !.calls = @ + 1,
                                             !.raised = @ \cup {threads.calls + 1}]
                        ELSE [threads EXCEPT !.caller = "deferred_put"]
       \/ /\ threads.caller = "deferred_put"
          /\ threads' = [threads EXCEPT
                            !.operations = Append(@, threads.calls + 1),
                            !.deferred = @ \cup {threads.calls + 1},
                            !.owner = "", !.caller = "idle", !.calls = @ + 1]
    /\ UNCHANGED <<server_vars, pure, client>>

\* shutdown, lines 123-125: set the event, join the thread, sanity_check()
\* (which takes _flush_lock and finds no exception).
shutdown_step ==
    /\ \/ /\ threads.closer = "idle"
          /\ threads' = [threads EXCEPT !.is_set = TRUE, !.closer = "join"]
       \/ /\ threads.closer = "join" /\ threads.writer = "exited"
          /\ threads' = [threads EXCEPT !.closer = "sanity_check"]
       \/ /\ threads.closer = "sanity_check" /\ threads.owner = ""
          /\ threads' = [threads EXCEPT !.closer = "done"]
    /\ UNCHANGED <<server_vars, pure, client>>

\* run, lines 133-202.  loop: the test of the event (133); get: the timed
\* get of an urgent operation and its execution (135-143); fill: one
\* get_nowait into op_buf (146-150); flush: the batch when op_buf is full
\* (152-162); lock: with self._flush_lock (164-165); urgent: the remaining
\* urgent operations (168-177); rest: op_buf and one get_nowait from
\* _operations, executed and resolved together (183-199).
run_step ==
    /\ \/ /\ threads.writer = "loop"
          /\ threads' = [threads EXCEPT
                            !.writer = IF threads.is_set THEN "lock" ELSE "get"]
       \/ /\ threads.writer = "get"
          /\ threads' = IF threads.urgent_ops # <<>>
                        THEN [threads EXCEPT
                                !.urgent_ops = Tail(@),
                                !.has_result = @ \cup {Head(threads.urgent_ops)},
                                !.writer = "loop"]
                        ELSE [threads EXCEPT !.writer = "fill"]
       \/ /\ threads.writer = "fill"
          /\ threads' = IF Len(threads.op_buf) < WriterBufSize
                            /\ threads.operations # <<>>
                        THEN [threads EXCEPT
                                !.op_buf = Append(@, Head(threads.operations)),
                                !.operations = Tail(@)]
                        ELSE [threads EXCEPT !.writer = "flush"]
       \/ /\ threads.writer = "flush"
          /\ threads' = IF Len(threads.op_buf) >= WriterBufSize
                        THEN [threads EXCEPT
                                !.has_result = @ \cup
                                    {threads.op_buf[i] :
                                        i \in 1..Len(threads.op_buf)},
                                !.op_buf = <<>>,
                                !.writer = "loop"]
                        ELSE [threads EXCEPT !.writer = "loop"]
       \/ /\ threads.writer = "lock"
          /\ threads.owner = ""
          /\ threads' = [threads EXCEPT !.owner = "writer", !.is_set = TRUE,
                                        !.writer = "urgent"]
       \/ /\ threads.writer = "urgent"
          /\ threads' = IF threads.urgent_ops # <<>>
                        THEN [threads EXCEPT
                                !.urgent_ops = Tail(@),
                                !.has_result = @ \cup {Head(threads.urgent_ops)}]
                        ELSE [threads EXCEPT !.writer = "rest"]
       \/ /\ threads.writer = "rest"
          /\ LET one == IF threads.operations = <<>> THEN <<>>
                        ELSE <<Head(threads.operations)>>
                 promises == threads.op_buf \o one
             IN  threads' = [threads EXCEPT
                    !.op_buf = <<>>,
                    !.operations = IF @ = <<>> THEN @ ELSE Tail(@),
                    !.has_result = @ \cup
                        {promises[i] : i \in 1..Len(promises)},
                    !.owner = "",
                    !.writer = "exited"]
    /\ UNCHANGED <<server_vars, pure, client>>

WriterNext ==
    \/ eager_create_step
    \/ deferred_execute_step
    \/ shutdown_step
    \/ run_step

SpecWriter == WriterInit /\ [][WriterNext]_vars

\* C39: eager_create is never stuck: it is never waiting for the result of
\* its promise, holding _flush_lock, while the writer has left its loop and
\* waits for _flush_lock with the promise still on the queue.
C39_EagerCreateNeverStuck ==
    ~ /\ threads.caller = "get_result"
      /\ threads.calls + 1 \notin threads.has_result
      /\ threads.owner = "caller"
      /\ threads.writer = "lock"

\* C40: when shutdown() has returned, every promise that deferred_execute
\* returned has a result.
C40_DeferredResolvedAtShutdown ==
    threads.closer = "done" => threads.deferred \subseteq threads.has_result

\* ------------------------------------------------------ ExperimentClient
\* client.ExperimentClient on a transport whose peer may send any message
\* at any time.  client.waiting is the deque _waiting: one Deferred per
\* request written, with the callback it carries and the number of the
\* request (1 is the version message of connectionMade).  client.written
\* is the types of the messages written to the transport, client.results
\* what each fired Deferred was called with and what its callback gave,
\* client.nrecv the messages the unpacker has produced.
MaxRequests == 3
MaxClientRecv == 4

\* Messages from the peer: a welcome, a status with success true or false,
\* a status whose payload does not match its schema, a message of a type
\* the client never expects.
ClientFrames ==
    {[type |-> "welcome", shape |-> "ok", success |-> TRUE],
     [type |-> "status", shape |-> "ok", success |-> TRUE],
     [type |-> "status", shape |-> "ok", success |-> FALSE],
     [type |-> "status", shape |-> "bad", success |-> TRUE],
     [type |-> "record", shape |-> "ok", success |-> TRUE]}

ClientChunks == UNION {[1..n -> ClientFrames] : n \in 1..MaxFrames}

\* What firing handler_d through base_d gives: validate_message raises
\* InvalidMessageError and chainDeferred passes the failure to handler_d;
\* otherwise the callback of handler_d runs: check_message_type, then
\* welcome_callback or _waiting_status_callback.
handler_result(handler, msg) ==
    IF ~validate_message(msg) THEN "InvalidMessageError"
    ELSE IF handler = "welcome_callback"
    THEN IF check_message_type({"welcome"}, msg) THEN "None"
         ELSE "UnexpectedMessageException"
    ELSE IF ~check_message_type({"status"}, msg)
    THEN "UnexpectedMessageException"
    ELSE IF ~msg.success THEN "ProtocolException"
    ELSE "None"

\* Mutant of client_dataReceived: the Deferred added last is taken
\* (pop instead of popleft).
RECURSIVE client_dataReceived_pop(_, _)
client_dataReceived_pop(cl, chunk) ==
    IF chunk = <<>> THEN cl
    ELSE LET msg == Head(chunk)
             fed == [cl EXCEPT !.nrecv = @ + 1]
             n == Len(cl.waiting)
         IN  IF cl.waiting = <<>>
             THEN client_dataReceived_pop(fed, Tail(chunk))
             ELSE client_dataReceived_pop(
                    [fed EXCEPT
                        !.waiting = SubSeq(@, 1, n - 1),
                        !.results = Append(@,
                            [request |-> cl.waiting[n].request,
                             msg |-> msg,
                             result |-> handler_result(
                                cl.waiting[n].handler, msg)])],
                    Tail(chunk))

\* ExperimentClient.dataReceived: for every message of the data, popleft
\* from _waiting and fire the Deferred with the message; IndexError (the
\* deque is empty) is caught and logged.  The two errbacks added after
\* chainDeferred never run: the chained callbacks return None.
RECURSIVE client_dataReceived(_, _)
client_dataReceived(cl, chunk) ==
    IF chunk = <<>> THEN cl
    ELSE LET msg == Head(chunk)
             fed == [cl EXCEPT !.nrecv = @ + 1]
         IN  IF cl.waiting = <<>>
             THEN client_dataReceived(fed, Tail(chunk))
             ELSE client_dataReceived(
                    [fed EXCEPT
                        !.waiting = Tail(@),
                        !.results = Append(@,
                            [request |-> Head(cl.waiting).request,
                             msg |-> msg,
                             result |-> handler_result(
                                Head(cl.waiting).handler, msg)])],
                    Tail(chunk))

\* ExperimentClient.backlog
backlog == Len(client.waiting)

\* ExperimentClient.__init__
ClientInit ==
    /\ ServerInit
    /\ pure = <<>> /\ threads = <<>>
    /\ client = [connected |-> FALSE, waiting |-> <<>>, written |-> <<>>,
                 results |-> <<>>, sent |-> 0, nrecv |-> 0]

\* connectionMade: the version message is written and the Deferred that
\* carries welcome_callback is appended.
connectionMade ==
    /\ ~client.connected
    /\ client' = [client EXCEPT
                    !.connected = TRUE,
                    !.waiting = Append(@, [request |-> client.sent + 1,
                                           handler |-> "welcome_callback"]),
                    !.written = Append(@, "version"),
                    !.sent = @ + 1]
    /\ UNCHANGED <<server_vars, pure, threads>>

\* write_metadata and record_variables: make_message, then _send, which
\* appends a Deferred carrying _waiting_status_callback and writes.
client_send(msg_type) ==
    /\ client.connected
    /\ client.sent < MaxRequests
    /\ client' = [client EXCEPT
                    !.waiting = Append(@, [request |-> client.sent + 1,
                                           handler |-> "_waiting_status_callback"]),
                    !.written = Append(@, msg_type),
                    !.sent = @ + 1]
    /\ UNCHANGED <<server_vars, pure, threads>>

\* Mutant of finish: the finish message is given a Deferred in _waiting
\* like a request.
finish_waiting ==
    /\ client.connected
    /\ "finish" \notin {client.written[i] : i \in 1..Len(client.written)}
    /\ client' = [client EXCEPT
                    !.waiting = Append(@, [request |-> client.sent + 1,
                                           handler |-> "_waiting_status_callback"]),
                    !.written = Append(@, "finish")]
    /\ UNCHANGED <<server_vars, pure, threads>>

\* finish: a new _shutdown_d, the finish message is written; _waiting is
\* not touched.
finish ==
    /\ client.connected
    /\ "finish" \notin {client.written[i] : i \in 1..Len(client.written)}
    /\ client' = [client EXCEPT !.written = Append(@, "finish")]
    /\ UNCHANGED <<server_vars, pure, threads>>

ClientDataReceived(chunk) ==
    /\ client.connected
    /\ client.nrecv + Len(chunk) <= MaxClientRecv
    /\ client' = client_dataReceived(client, chunk)
    /\ UNCHANGED <<server_vars, pure, threads>>

ClientNext ==
    \/ connectionMade
    \/ \E msg_type \in {"metadata", "record"} : client_send(msg_type)
    \/ finish
    \/ \E chunk \in ClientChunks : ClientDataReceived(chunk)

SpecClient == ClientInit /\ [][ClientNext]_vars

\* C31: the backlog is the number of requests written whose reply has not
\* been received: it becomes 1 with the version message, grows by one with
\* every write_metadata and record_variables, falls by one with every
\* message received while it is positive (so it is 0 once the welcome has
\* arrived and nothing else was sent), and finish leaves it as it is.
C31_BacklogCountsOutstanding ==
    /\ [](backlog = client.sent - Len(client.results))
    /\ [][/\ connectionMade => backlog' = 1
          /\ (\E t \in {"metadata", "record"} : client_send(t))
                => backlog' = backlog + 1
          /\ finish => backlog' = backlog
          /\ \A chunk \in ClientChunks : ClientDataReceived(chunk) =>
                backlog' = IF Len(chunk) >= backlog THEN 0
                           ELSE backlog - Len(chunk)]_vars

\* Two requests after the handshake, finish called, one reply received:
\* one request is outstanding.
C31_Witness ==
    /\ client.sent = 3 /\ Len(client.results) = 2 /\ backlog = 1
    /\ client.results[1].msg.type = "welcome"
    /\ client.written[Len(client.written)] = "finish"

\* C37: replies are matched to requests in order: the k-th message received
\* fires the Deferred of the k-th request written (the version message
\* being the first); a data of n messages fires the first n outstanding
\* Deferreds, one each, whatever validation says of the message; a message
\* received while nothing is outstanding changes nothing.
C37_RepliesMatchedFifo ==
    /\ [](\A k \in 1..Len(client.results) : client.results[k].request = k)
    /\ [][\A chunk \in ClientChunks : ClientDataReceived(chunk) =>
            LET n == IF Len(chunk) >= backlog THEN backlog ELSE Len(chunk)
            IN  /\ Len(client'.results) = Len(client.results) + n
                /\ \A i \in 1..n :
                    LET r == client'.results[Len(client.results) + i]
                    IN  /\ r.request = client.waiting[i].request
                        /\ r.msg = chunk[i]
                /\ client'.waiting = SubSeq(client.waiting, n + 1, backlog)
                /\ client'.written = client.written
                /\ client'.sent = client.sent
                /\ backlog = 0 =>
                    client' = [client EXCEPT !.nrecv = @ + Len(chunk)]]_vars

\* Three requests answered in order, the second by a message that fails
\* validation, and a fourth message received with nothing outstanding.
C37_Witness ==
    /\ client.sent = 3 /\ Len(client.results) = 3 /\ backlog = 0
    /\ client.results[2].result = "InvalidMessageError"
    /\ client.results[3].result = "None"
    /\ client.nrecv = 4
====
